---- MODULE Spec2Model ----
(***************************************************************************)
(* State-machine model of the chalkboard physics sandbox                   *)
(* (src/src/components/PhysicsCanvas.tsx with src/src/lib/entityFactory.ts *)
(* and src/src/app/page.tsx).                                              *)
(*                                                                         *)
(* The rigid-body engine (matter-js) is an external collaborator.  Its     *)
(* integration step is modelled as a nondeterministic change of position   *)
(* and velocity of one body of the world; everything the component itself  *)
(* does (the beforeUpdate rules, the AI tick, the spawner, the cleanup,    *)
(* the pointer handlers, erase and clear-all) is translated from the code. *)
(*                                                                         *)
(* Units: positions are pixels (integers), velocities are tenths of a      *)
(* pixel per step (so 2.0 is 20 and -1.5 is -15), times are milliseconds.  *)
(***************************************************************************)
EXTENDS Integers, Sequences, FiniteSets, TLC

(***************************************************************************)
(* Bounds of the model                                                     *)
(***************************************************************************)
\* bodies of each kind created after the mount, over one life of the component
MaxHumanoids == 2
MaxBalls == 1
MaxLadders == 1
MaxRainDrops == 1
MaxRoulettes == 1
MaxBars == 2
MaxSegments == 2
\* clouds and bubbles made by the mount (the code makes 4 and 6)
InitClouds == 1
InitBubbles == 2
\* raindrops per cloud click (the code makes 8)
RainBurst == 1
\* balls of a winning spin (the code makes 20)
RouletteBurst == 1
\* advances of the wall clock
MaxClock == 3
\* uses of clear-all (each one remounts the component)
MaxClears == 1
\* walking / climbing steps of the leg animation that are followed
MaxLegPhase == 1
\* the leg steps followed where a humanoid is to take more than one tick
MaxWalkTicks == 2

(***************************************************************************)
(* Program constants                                                       *)
(***************************************************************************)
CATEGORY_DEFAULT == 1
CATEGORY_DYNAMIC == 2
CATEGORY_LADDER == 4
CATEGORY_HUMANOID == 8
CATEGORY_PLATEFORM == 32
CaptureRadius == 45
RainFloorY == 800
LineLifetime == 60000
CleanupMargin == 200
GroundHeight == 80
GroundOffset == 120
SegmentRadius == 3
DrawStep == 2
HumanoidHalfW == 10
HumanoidHalfH == 17
BubbleRadius == 30
BallRadius == 10
CloudRadius == 30
RainRadius == 3
RainDropDy == 20
RainSpeed == 50
HumanoidSpawnX == 100
HumanoidSpawnUp == 150
BallSpawnInset == 30
WalkSpeed == 20
StuckVel == 5
AirborneVel == 10
EscapeJumpAt == 15
EscapeJumpVel == 90
StuckTurnAfter == 90
HangProbeDx == 15
HangProbeDy == 10
HangMin == 30
HangSpread == 30
HeadProbeDy == 30
ClimbUpVel == 15
ClimbDownVel == 20
LadderTopMargin == 20
LadderHalfW == 30
LadderHalfH == 90
LadderSpawnY == 200
SpinSteps == 180
RouletteSpawnY == 200
BurstAbove == 50
FrontProbeDx == 50
GroundedVel == 1
\* forces in units of 0.00001: the obstacle jump (0.04, -0.12), the idle hop
\* -0.08, gravity on the humanoid's mass 20 * 34 * 0.002 at scale 0.001
ObstacleJumpFx == 4000
ObstacleJumpFy == 12000
HopFy == 8000
HoldFy == 136

\* the canvas of the model: canvas.clientWidth x canvas.clientHeight
CanvasWidth == 400
CanvasHeight == 700
\* one step of the wall clock of the model, in ms
ClockStep == 30000

(***************************************************************************)
(* Geometry helpers                                                        *)
(***************************************************************************)
Abs(n) == IF n < 0 THEN -n ELSE n

Pt(x, y) == <<x, y>>

NoPoint == <<>>

\* Matter.Vector.magnitude(Matter.Vector.sub(p, q)) < r, on integers
DistLess(p, q, r) ==
    (p[1] - q[1]) * (p[1] - q[1]) + (p[2] - q[2]) * (p[2] - q[2]) < r * r

\* a circle of radius r at c holds the point p (points of the model are never
\* on the polygon's rim: their distance is 0 or at least r + 1)
InCircle(p, c, r) ==
    (p[1] - c[1]) * (p[1] - c[1]) + (p[2] - c[2]) * (p[2] - c[2]) <= r * r

\* an axis-aligned rectangle of half extents hw, hh at c holds p (edges count:
\* Vertices.contains rejects a point only when it is strictly outside an edge)
InRect(p, c, hw, hh) ==
    /\ Abs(p[1] - c[1]) <= hw
    /\ Abs(p[2] - c[2]) <= hh

\* floor(sqrt(n)) for n >= 0
RECURSIVE IsqrtIn(_, _, _)
IsqrtIn(n, lo, hi) ==
    IF hi - lo <= 1 THEN lo
    ELSE LET mid == (lo + hi) \div 2
         IN IF mid * mid <= n THEN IsqrtIn(n, mid, hi) ELSE IsqrtIn(n, lo, mid)

Isqrt(n) == IsqrtIn(n, 0, n + 1)

Max(a, b) == IF a >= b THEN a ELSE b

SetMin(S) == CHOOSE m \in S : \A n \in S : m <= n

\* the ids of S in increasing order: the order of Composite.allBodies, because
\* every body enters the world right after it is created
RECURSIVE SortedSeq(_)
SortedSeq(S) ==
    IF S = {} THEN <<>>
    ELSE LET m == SetMin(S) IN <<m>> \o SortedSeq(S \ {m})

SeqToSet(s) == {s[i] : i \in 1..Len(s)}

\* Array.prototype.filter with the predicate "is not one of gone"
RECURSIVE Without(_, _)
Without(s, gone) ==
    IF s = <<>> THEN <<>>
    ELSE IF s[1] \in gone THEN Without(Tail(s), gone)
         ELSE <<s[1]>> \o Without(Tail(s), gone)

\* bit tests on collision masks (every category is a single bit)
HasBit(mask, bit) == (mask \div bit) % 2 = 1

ClearBit(mask, bit) == IF HasBit(mask, bit) THEN mask - bit ELSE mask

(***************************************************************************)
(* Positions of the model                                                  *)
(***************************************************************************)
\* where the cloud of the mount floats: x < width, y < height / 3
SkyPos == Pt(100, 114)
\* the left humanoid spawn point; it lies in the top band of the ground
FloorPos == Pt(HumanoidSpawnX, CanvasHeight - HumanoidSpawnUp)
\* below the rain floor, still inside the cleanup rectangle
DeepPos == Pt(100, 850)
\* outside the cleanup rectangle
OutPos == Pt(100, 950)
\* a second pointer position, 4 px under FloorPos
NearPos == Pt(HumanoidSpawnX, CanvasHeight - HumanoidSpawnUp + 4)
\* on the ladder of the model, under its top margin; the probe above the head
\* of a humanoid here is SkyPos
ClimbPos == Pt(SkyPos[1], SkyPos[2] + HeadProbeDy)

(***************************************************************************)
(* Bodies.  A body is a record; kind is the model's name for what the      *)
(* factory made, from which the label and the tag flags follow.            *)
(***************************************************************************)
NoBody == 0

\* the collision mask the engine gives a body made without a filter (all bits
\* set), cut to the categories the program uses
EngineMask ==
    CATEGORY_DEFAULT + CATEGORY_DYNAMIC + CATEGORY_LADDER + CATEGORY_HUMANOID
        + CATEGORY_PLATEFORM

\* the reference point the model keeps for a compound of stroke parts (the code
\* never reads the position of a line)
TopLeft(points) ==
    CHOOSE p \in points :
        \A q \in points : p[2] < q[2] \/ (p[2] = q[2] /\ p[1] <= q[1])

Body(kind, pos, vel, mask) ==
    [kind |-> kind, pos |-> pos, vel |-> vel, mask |-> mask,
     inBubble |-> FALSE, containedEntity |-> NoBody, isOnLadderTop |-> FALSE,
     createdAt |-> 0, parts |-> {}, angle |-> 0, isSpinning |-> FALSE,
     spinTimer |-> 0, force |-> Pt(0, 0), fixedPosition |-> NoPoint,
     angularVelocity |-> 0, grabbed |-> FALSE]

\* Bodies.rectangle(width / 2, groundY, width, groundHeight, {isStatic, label: 'Ground'})
CreateGround ==
    Body("ground", Pt(CanvasWidth \div 2, CanvasHeight - GroundOffset), Pt(0, 0),
         EngineMask)

CreateCloudEntity(x, y) ==
    Body("cloud", Pt(x, y), Pt(0, 0), CATEGORY_DYNAMIC + CATEGORY_HUMANOID)

CreateBubbleEntity(x, y) ==
    Body("bubble", Pt(x, y), Pt(0, 0),
         CATEGORY_DEFAULT + CATEGORY_DYNAMIC + CATEGORY_HUMANOID)

CreateHumanoidEntity(x, y) ==
    Body("humanoid", Pt(x, y), Pt(0, 0), CATEGORY_DEFAULT + CATEGORY_DYNAMIC)

CreateEntity(x, y) ==
    Body("ball", Pt(x, y), Pt(0, 0),
         CATEGORY_DEFAULT + CATEGORY_DYNAMIC + CATEGORY_HUMANOID)

CreateLadderEntity(x, y) ==
    Body("ladder", Pt(x, y), Pt(0, 0), CATEGORY_DEFAULT)

\* the raindrop factory is imported by the component but is not among the
\* sources: a small body labelled 'RainDrop'
CreateRainDropEntity(x, y) ==
    Body("raindrop", Pt(x, y), Pt(0, 0), EngineMask)

\* the roulette factory is imported by the component but is not among the
\* sources: a body tagged isRoulette that is idle
CreateRouletteEntity(x, y) ==
    Body("roulette", Pt(x, y), Pt(0, 0), EngineMask)

\* the floating bar's factory is imported by the component but is not among
\* the sources: a body tagged isFixedFloating, labelled 'FloatingBar', whose
\* fixedPosition is where it was made
CreateFloatingBarEntity(x, y) ==
    [Body("floatingbar", Pt(x, y), Pt(0, 0), EngineMask) EXCEPT !.fixedPosition = Pt(x, y)]

\* Bodies.circle(px, py, 3, {isStatic: true}) of handlePointerMove
CreateSegment(p) ==
    Body("segment", p, Pt(0, 0), EngineMask)

\* Body.create({parts: circles at the segments' positions}) of handlePointerUp,
\* with isFloating, isLine and createdAt set
CreateLine(partPositions, t) ==
    [Body("line", TopLeft(partPositions), Pt(0, 0), EngineMask)
     EXCEPT !.parts = partPositions, !.createdAt = t]

\* the labels that the component tests but no factory among the sources sets:
\* the cloud's and the raindrop's
FactoryLabel(b) ==
    CASE b.kind = "cloud" -> "Cloud"
      [] b.kind = "raindrop" -> "RainDrop"
      [] b.kind = "floatingbar" -> "FloatingBar"
      [] OTHER -> "Body"

\* body.label
Label(b) ==
    CASE b.kind = "ground" -> "Ground"
      [] b.kind = "ladder" -> "Ladder"
      [] OTHER -> FactoryLabel(b)

IsHumanoid(b) == b.kind = "humanoid"

IsBubble(b) == b.kind = "bubble"

IsLine(b) == b.kind = "line"

IsRoulette(b) == b.kind = "roulette"

\* body.isStatic: the ground and the segments of a drag are made static
IsStatic(b) == b.kind \in {"ground", "segment"}

\* Matter.Query.point on one body: the body (or, for a compound, one of its
\* parts) holds the point
Hit(b, p) ==
    CASE b.kind = "ground" -> InRect(p, b.pos, CanvasWidth \div 2, GroundHeight \div 2)
      [] b.kind = "humanoid" -> InRect(p, b.pos, HumanoidHalfW, HumanoidHalfH)
      [] b.kind = "bubble" -> InCircle(p, b.pos, BubbleRadius)
      [] b.kind = "ball" -> InCircle(p, b.pos, BallRadius)
      [] b.kind = "cloud" ->
            \* the five circles of the compound
            \/ InCircle(p, b.pos, CloudRadius)
            \/ InCircle(p, Pt(b.pos[1] - 25, b.pos[2] + 10), 25)
            \/ InCircle(p, Pt(b.pos[1] + 25, b.pos[2] + 10), 25)
            \/ InCircle(p, Pt(b.pos[1] - 15, b.pos[2] - 15), 20)
            \/ InCircle(p, Pt(b.pos[1] + 15, b.pos[2] - 15), 20)
      [] b.kind = "raindrop" -> InCircle(p, b.pos, RainRadius)
      [] b.kind = "segment" -> InCircle(p, b.pos, SegmentRadius)
      [] b.kind = "line" -> \E c \in b.parts : InCircle(p, c, SegmentRadius)
      [] b.kind = "ladder" ->
            \* the top bar (60 x 8), one of the two rails (6 wide) or one of
            \* the six rungs (48 x 5, 172 / 7 apart); pos is the (x, y) the
            \* factory was given
            \/ InRect(p, Pt(b.pos[1], b.pos[2] - LadderHalfH + 4), LadderHalfW, 4)
            \/ /\ Abs(Abs(p[1] - b.pos[1]) - (LadderHalfW - 3)) <= 3
               /\ p[2] >= b.pos[2] - LadderHalfH + 8
               /\ p[2] <= b.pos[2] + LadderHalfH
            \/ /\ Abs(p[1] - b.pos[1]) <= LadderHalfW - 6
               /\ \E i \in 1..6 :
                     Abs(14 * (p[2] - b.pos[2] + LadderHalfH - 8) - 344 * i) <= 35
      [] OTHER -> FALSE

(***************************************************************************)
(* State                                                                   *)
(***************************************************************************)
VARIABLES
    bodies,         \* id -> body record: every body made since the mount
    world,          \* engine.world: the ids of the bodies in it
    walls,          \* wallsRef.current
    entities,       \* entitiesRef.current
    humanoidData,   \* humanoidDataRef.current
    currentStroke,  \* currentStrokeBodiesRef.current
    isDrawing,      \* isDrawingRef.current
    lastPoint,      \* lastPointRef.current (NoPoint for null)
    cursorMode,     \* 'draw' | 'grab' | 'eraser'
    isPlaying,      \* the React state behind the pause button
    isSpawning,     \* isSpawningRef.current
    runnerOn,       \* the engine's runner is running
    constraintOn,   \* the mouse constraint is in the world
    now,            \* Date.now(), in ms
    clearCount,     \* page.tsx: the key of the component
    remountDue,     \* onClear() has changed the key: the component is replaced
    width,          \* const width of the mount effect: the canvas's width
    height          \* const height of the mount effect: the canvas's height

vars ==
    <<bodies, world, walls, entities, humanoidData, currentStroke, isDrawing,
      lastPoint, cursorMode, isPlaying, isSpawning, runnerOn, constraintOn, now,
      clearCount, remountDue,
                   width, height>>

\* Identities.  A body's id is made of its kind and its rank among the bodies
\* of that kind, so that ids grow with the time of creation within a kind.
KindRank(kind) ==
    CASE kind = "ground" -> 0
      [] kind = "cloud" -> 1
      [] kind = "bubble" -> 2
      [] kind = "humanoid" -> 3
      [] kind = "ball" -> 4
      [] kind = "ladder" -> 5
      [] kind = "raindrop" -> 6
      [] kind = "segment" -> 7
      [] kind = "roulette" -> 9
      [] kind = "floatingbar" -> 10
      [] OTHER -> 8

IdStride ==
    1 + InitClouds + InitBubbles + MaxHumanoids + MaxBalls + MaxLadders
      + MaxRainDrops + MaxSegments + MaxRoulettes + MaxBars

Id(kind, n) == KindRank(kind) * IdStride + n

\* the bodies of a kind made so far
MadeOf(bd, kind) == {i \in DOMAIN bd : bd[i].kind = kind}

\* the id of the next body of a kind
NextId(kind) == Id(kind, Cardinality(MadeOf(bodies, kind)) + 1)

GroundId == Id("ground", 1)

InitCloudIds == {Id("cloud", n) : n \in 1..InitClouds}

InitBubbleIds == {Id("bubble", n) : n \in 1..InitBubbles}

MountIds == {GroundId} \cup InitCloudIds \cup InitBubbleIds

\* room for k more bodies of a kind
RoomFor(kind, k, most) == Cardinality(MadeOf(bodies, kind)) + k <= most

\* Math.random() * width, Math.random() * height of the bubbles of the mount
InitBubblePositions == {FloorPos}

\* the refs and the world as the mounting effect leaves them
MountBodies(bubbleAt) ==
    [i \in MountIds |->
        IF i = GroundId THEN CreateGround
        ELSE IF i \in InitCloudIds THEN CreateCloudEntity(SkyPos[1], SkyPos[2])
        ELSE CreateBubbleEntity(bubbleAt[i][1], bubbleAt[i][2])]

\* the state the mount effect leaves on a canvas of w x h
Mount(w, h) ==
    /\ width = w
    /\ height = h
    /\ \E bubbleAt \in [InitBubbleIds -> InitBubblePositions] :
          bodies = [MountBodies(bubbleAt) EXCEPT
                       ![GroundId].pos = Pt(w \div 2, h - GroundOffset)]
    /\ world = MountIds
    /\ walls = <<GroundId>>
    /\ entities = SortedSeq(InitCloudIds \cup InitBubbleIds)
    /\ humanoidData = <<>>
    /\ currentStroke = <<>>
    /\ isDrawing = FALSE
    /\ lastPoint = NoPoint
    /\ cursorMode = "draw"
    /\ isPlaying = TRUE
    /\ isSpawning = TRUE
    /\ runnerOn = TRUE
    /\ constraintOn = FALSE
    /\ now = ClockStep
    /\ clearCount = 0
    /\ remountDue = FALSE

Init == Mount(CanvasWidth, CanvasHeight)

(***************************************************************************)
(* The engine's step: the beforeUpdate handler, then the integration       *)
(***************************************************************************)
WorldHumanoids(bd, w) == SortedSeq({i \in w : IsHumanoid(bd[i])})

WorldBubbles(bd, w) == SortedSeq({i \in w : IsBubble(bd[i])})

\* the bubbles of bs nearer to the humanoid h than the capture radius
InReach(bd, h, bs) ==
    {k \in 1..Len(bs) : DistLess(bd[h].pos, bd[bs[k]].pos, CaptureRadius)}

\* capture without the break: every empty bubble in reach takes the humanoid
CaptureOneNoBreak(bd, h, bs) ==
    IF bd[h].inBubble THEN bd
    ELSE LET free == {k \in InReach(bd, h, bs) : bd[bs[k]].containedEntity = NoBody}
         IN IF free = {} THEN bd
            ELSE [i \in DOMAIN bd |->
                    IF i = h THEN [bd[i] EXCEPT !.inBubble = TRUE, !.mask = CATEGORY_DEFAULT]
                    ELSE IF \E k \in free : bs[k] = i
                         THEN [bd[i] EXCEPT !.containedEntity = h]
                         ELSE bd[i]]

\* capture without the "full" test: the first bubble in reach takes the humanoid
CaptureOneNoFullTest(bd, h, bs) ==
    IF bd[h].inBubble \/ InReach(bd, h, bs) = {} THEN bd
    ELSE LET b == bs[SetMin(InReach(bd, h, bs))]
         IN [bd EXCEPT ![h].inBubble = TRUE,
                       ![b].containedEntity = h,
                       ![h].mask = CATEGORY_DEFAULT]

\* the body of humanoids.forEach for one humanoid h: the first bubble of bs
\* that is empty and nearer than the capture radius takes it
CaptureOne(bd, h, bs) ==
    IF bd[h].inBubble THEN bd
    ELSE LET free == {k \in InReach(bd, h, bs) : bd[bs[k]].containedEntity = NoBody}
         IN IF free = {} THEN bd
            ELSE LET b == bs[SetMin(free)]
                 IN [bd EXCEPT ![h].inBubble = TRUE,
                               ![b].containedEntity = h,
                               ![h].mask = CATEGORY_DEFAULT]

RECURSIVE CaptureAll(_, _, _)
CaptureAll(bd, hs, bs) ==
    IF hs = <<>> THEN bd
    ELSE CaptureAll(CaptureOne(bd, hs[1], bs), Tail(hs), bs)

\* a carry that moves the passenger and leaves it its velocity
CarryPositionOnly(bd, w) ==
    [i \in DOMAIN bd |->
        LET carriers == {b \in w : IsBubble(bd[b]) /\ bd[b].containedEntity = i}
        IN IF carriers = {} THEN bd[i]
           ELSE LET b == CHOOSE c \in carriers : \A d \in carriers : d <= c
                IN [bd[i] EXCEPT !.pos = bd[b].pos]]

\* Bubble carrying logic: the passenger gets the bubble's position and velocity
Carry(bd, w) ==
    [i \in DOMAIN bd |->
        LET carriers == {b \in w : IsBubble(bd[b]) /\ bd[b].containedEntity = i}
        IN IF carriers = {} THEN bd[i]
           ELSE LET b == CHOOSE c \in carriers : \A d \in carriers : d <= c
                IN [bd[i] EXCEPT !.pos = bd[b].pos, !.vel = bd[b].vel]]

\* a lock that follows the body whether it is grabbed or not
FixedFloatFollows(bd, w) ==
    [i \in DOMAIN bd |->
        IF i \in w /\ bd[i].kind = "floatingbar"
        THEN [bd[i] EXCEPT !.fixedPosition = bd[i].pos]
        ELSE bd[i]]

\* "Keep ladders and blocks upright" and "Fixed Floating Logic" on the
\* floating bars of the world; grabbed stands for
\* mouseConstraintRef.current.body === body.  (The force that holds a grabbed
\* bar against gravity is used up by the step that follows.)
FixedFloat(bd, w) ==
    [i \in DOMAIN bd |->
        IF i \in w /\ bd[i].kind = "floatingbar"
        THEN LET upright == [bd[i] EXCEPT !.angle = 0, !.angularVelocity = 0]
             IN IF upright.grabbed
                THEN [upright EXCEPT !.fixedPosition = upright.pos]
                ELSE IF upright.fixedPosition # NoPoint
                     THEN [upright EXCEPT !.pos = upright.fixedPosition,
                                          !.vel = Pt(0, 0),
                                          !.angularVelocity = 0]
                     ELSE upright
        ELSE bd[i]]

\* an aging rule that takes a line at the limit already
AgedLinesAtLimit(bd, w, t) ==
    {i \in w : IsLine(bd[i]) /\ bd[i].createdAt # 0 /\ t - bd[i].createdAt >= LineLifetime}

\* Disappearing Lines Logic: the lines of the world older than the lifetime
AgedLines(bd, w, t) ==
    {i \in w : IsLine(bd[i]) /\ bd[i].createdAt # 0 /\ t - bd[i].createdAt > LineLifetime}

\* Rain Drop Logic: the raindrops of the world below the floor
FallenRain(bd, w) ==
    {i \in w : Label(bd[i]) = "RainDrop" /\ bd[i].pos[2] > RainFloorY}

\* Roulette Spin & Result Logic: the spinning roulettes of the world
Spinning(bd, w) == {i \in w : IsRoulette(bd[i]) /\ bd[i].isSpinning}

\* the roulettes whose spin ends in this pass
Resolving(bd, w) == {i \in Spinning(bd, w) : bd[i].spinTimer - 1 <= 0}

\* a spin that counts down and never ends
SpunNeverIdle(bd, w) ==
    [i \in DOMAIN bd |->
        IF i \in Spinning(bd, w)
        THEN [bd[i] EXCEPT !.spinTimer = bd[i].spinTimer - 1]
        ELSE bd[i]]

\* spinTimer--; if (spinTimer <= 0) isSpinning = false
Spun(bd, w) ==
    [i \in DOMAIN bd |->
        IF i \in Spinning(bd, w)
        THEN [bd[i] EXCEPT !.spinTimer = bd[i].spinTimer - 1,
                           !.isSpinning = bd[i].spinTimer - 1 > 0]
        ELSE bd[i]]

\* Spawn Balls Logic: RouletteBurst balls above every winning roulette
RECURSIVE BurstFrom(_, _, _, _)
BurstFrom(winners, bd, w, es) ==
    IF winners = <<>> THEN [bodies |-> bd, world |-> w, entities |-> es]
    ELSE LET made == Cardinality(MadeOf(bd, "ball"))
             ids == {Id("ball", made + n) : n \in 1..RouletteBurst}
             ball == CreateEntity(bd[winners[1]].pos[1], -BurstAbove)
         IN BurstFrom(Tail(winners),
                      bd @@ [i \in ids |-> ball],
                      w \cup ids,
                      es \o SortedSeq(ids))

\* what the beforeUpdate handler leaves: the bodies, the world, the wall list
\* and the entity list; winners are the roulettes whose Math.random() < 0.2
BeforeUpdate(bd, w, wl, es, t, winners) ==
    LET captured == CaptureAll(bd, WorldHumanoids(bd, w), WorldBubbles(bd, w))
        carried == FixedFloat(Carry(captured, w), w)
        burst == BurstFrom(SortedSeq(winners), Spun(carried, w),
                           (w \ AgedLines(bd, w, t)) \ FallenRain(carried, w), es)
    IN [bodies |-> burst.bodies,
        world |-> burst.world,
        walls |-> Without(wl, AgedLines(bd, w, t)),
        entities |-> burst.entities]

\* where the engine of the model can put a body of a kind
MovePositions(kind) ==
    CASE kind = "humanoid" -> {FloorPos, OutPos}
      [] kind = "bubble" -> {FloorPos, OutPos}
      [] kind = "ball" -> {FloorPos, OutPos}
      [] kind = "raindrop" -> {DeepPos, OutPos}
      [] OTHER -> {}

\* the end of Engine.update: the forces applied since the last step are used
\* up and cleared on every body of the world
ForcesCleared(bd, w) ==
    [j \in DOMAIN bd |-> IF j \in w THEN [bd[j] EXCEPT !.force = Pt(0, 0)] ELSE bd[j]]

\* Engine.update: the beforeUpdate handler runs, then the integration leaves
\* body i (if any) at position p with velocity v, angle a and angular
\* velocity s
EngineSpin(i, p, v, a, s) ==
    /\ runnerOn
    /\ ~remountDue
    /\ \E winners \in SUBSET Resolving(bodies, world) :
          /\ RoomFor("ball", RouletteBurst * Cardinality(winners), MaxBalls)
          /\ LET after == BeforeUpdate(bodies, world, walls, entities, now, winners)
             IN /\ world' = after.world
                /\ walls' = after.walls
                /\ entities' = after.entities
                /\ bodies' = IF i \in after.world
                             THEN [ForcesCleared(after.bodies, after.world)
                                      EXCEPT ![i].pos = p, ![i].vel = v, ![i].angle = a,
                                             ![i].angularVelocity = s]
                             ELSE ForcesCleared(after.bodies, after.world)
    /\ UNCHANGED <<humanoidData, currentStroke, isDrawing, lastPoint, cursorMode,
                   isPlaying, isSpawning, runnerOn, constraintOn, now, clearCount,
                   remountDue,
                   width, height>>

EngineTurn(i, p, v, a) ==
    EngineSpin(i, p, v, a, IF i \in DOMAIN bodies THEN bodies[i].angularVelocity ELSE 0)

EngineUpdate(i, p, v) ==
    EngineTurn(i, p, v, IF i \in DOMAIN bodies THEN bodies[i].angle ELSE 0)

\* a step in which nothing is displaced
PhysicsStep == EngineUpdate(NoBody, Pt(0, 0), Pt(0, 0))

\* a step that leaves one body somewhere else
PhysicsMove ==
    \E i \in world :
      \E p \in MovePositions(bodies[i].kind) \ {bodies[i].pos} :
         EngineUpdate(i, p, bodies[i].vel)

\* a step that leaves one humanoid falling at 2.0 per step
PhysicsFall ==
    \E i \in world :
       /\ IsHumanoid(bodies[i])
       /\ EngineUpdate(i, bodies[i].pos, Pt(0, 20))

\* a step in which a wall holds one humanoid: it stays where it is, at rest
PhysicsBlock ==
    \E i \in world :
       /\ IsHumanoid(bodies[i])
       /\ bodies[i].vel # Pt(0, 0)
       /\ EngineUpdate(i, bodies[i].pos, Pt(0, 0))

\* a step that leaves one humanoid on the ladder of the model: on its top or
\* under its top margin
PhysicsClimb ==
    \E i \in world :
       /\ IsHumanoid(bodies[i])
       /\ \E p \in {SkyPos, ClimbPos} \ {bodies[i].pos} :
             EngineUpdate(i, p, bodies[i].vel)

\* a step that takes one humanoid off the ladder of the model
PhysicsLeave ==
    \E i \in world :
       /\ IsHumanoid(bodies[i])
       /\ bodies[i].pos \in {SkyPos, ClimbPos}
       /\ EngineUpdate(i, OutPos, bodies[i].vel)

\* a step that leaves one humanoid that holds on to nothing falling in the
\* open, away from every wall
PhysicsDrop ==
    \E k \in 1..Len(humanoidData) :
       /\ humanoidData[k].body \in world
       /\ humanoidData[k].hangingCounter = 0
       /\ bodies[humanoidData[k].body].pos # OutPos
       /\ EngineUpdate(humanoidData[k].body, OutPos, Pt(0, 20))

\* a step in which a collision or the pointer's pull leaves one floating bar
\* where it is, at SkyPos or at NearPos, falling and turning
PhysicsPush ==
    \E i \in world : \E p \in {bodies[i].pos, SkyPos, NearPos} :
       /\ bodies[i].kind = "floatingbar"
       /\ EngineSpin(i, p, Pt(0, 20), 0, 1)

\* the angles a collision can leave an upright body with
TiltAngles == {-1, 1}

\* a step that leaves one upright humanoid tilted
PhysicsTilt ==
    \E i \in world : \E a \in TiltAngles :
       /\ IsHumanoid(bodies[i])
       /\ bodies[i].angle = 0
       /\ EngineTurn(i, bodies[i].pos, bodies[i].vel, a)

\* a collision that starts a spin although the roulette is spinning
TriggersWhileSpinning(b, other) ==
    IsRoulette(b) /\ ~IsStatic(other) /\ Label(other) # "RainDrop"

\* the test of the collisionStart handler on one body of the pair
Triggers(b, other) ==
    /\ IsRoulette(b)
    /\ ~b.isSpinning
    /\ ~IsStatic(other)
    /\ Label(other) # "RainDrop"

\* isSpinning = true; spinTimer = 180
StartSpin(b) == [b EXCEPT !.isSpinning = TRUE, !.spinTimer = SpinSteps]

\* the collisionStart handler on the pair (a, b) that the engine reports
CollisionStart(a, b) ==
    /\ runnerOn
    /\ ~remountDue
    /\ a \in world /\ b \in world /\ a # b
    /\ bodies' = [i \in DOMAIN bodies |->
                     IF i = a /\ Triggers(bodies[a], bodies[b]) THEN StartSpin(bodies[a])
                     ELSE IF i = b /\ Triggers(bodies[b], bodies[a]) THEN StartSpin(bodies[b])
                     ELSE bodies[i]]
    /\ UNCHANGED <<world, walls, entities, humanoidData, currentStroke, isDrawing,
                   lastPoint, cursorMode, isPlaying, isSpawning, runnerOn,
                   constraintOn, now, clearCount, remountDue,
                   width, height>>

\* the wall clock moves on
AdvanceClock ==
    /\ ~remountDue
    /\ now < ClockStep * (MaxClock + 1)
    /\ now' = now + ClockStep
    /\ UNCHANGED <<bodies, world, walls, entities, humanoidData, currentStroke,
                   isDrawing, lastPoint, cursorMode, isPlaying, isSpawning, runnerOn,
                   constraintOn, clearCount, remountDue,
                   width, height>>

(***************************************************************************)
(* Spawner and cleanup                                                     *)
(***************************************************************************)
\* timers that do not look at the pause flag
TimerRunsPaused(spawning) == TRUE

\* if (!isSpawningRef.current) return: the first line of the AI tick and of
\* the spawn tick
TimerRuns(spawning) == spawning

\* getHumanoidSpawnPosition(w, h): the two outcomes of its coin
HumanoidSpawns(w, h) ==
    {[x |-> HumanoidSpawnX, y |-> h - HumanoidSpawnUp, direction |-> 1],
     [x |-> w - HumanoidSpawnX, y |-> h - HumanoidSpawnUp, direction |-> -1]}

\* getRandomSpawnPosition(w, h): left edge, right edge, top edge; the random
\* coordinate, of 0 .. h * 0.5 or 0 .. w, is SkyPos's where the range has it
\* and the end of the range where not, and the random speed is 3.0
RandomSpawns(w, h) ==
    LET y == IF SkyPos[2] < h \div 2 THEN SkyPos[2] ELSE h \div 2
        x == IF SkyPos[1] < w THEN SkyPos[1] ELSE w
    IN {[x |-> -BallSpawnInset, y |-> y, vx |-> 30, vy |-> 0],
        [x |-> w + BallSpawnInset, y |-> y, vx |-> -30, vy |-> 0],
        [x |-> x, y |-> -BallSpawnInset, vx |-> 0, vy |-> 0]}

\* a HumanoidData record as the timed spawner makes it
TimedRecord(id, direction) ==
    [body |-> id, direction |-> direction, legPhase |-> 0, stuckCounter |-> 0,
     isClimbing |-> FALSE, hangingCounter |-> 0, hangingSet |-> TRUE]

\* a HumanoidData record as the toolbar button makes it: no hangingCounter yet
ButtonRecord(id, direction) ==
    [body |-> id, direction |-> direction, legPhase |-> 0, stuckCounter |-> 0,
     isClimbing |-> FALSE, hangingCounter |-> 0, hangingSet |-> FALSE]

\* World.add(engine.world, body); entitiesRef.current.push(body)
AddEntity(body) ==
    /\ bodies' = bodies @@ (NextId(body.kind) :> body)
    /\ world' = world \cup {NextId(body.kind)}
    /\ entities' = Append(entities, NextId(body.kind))

\* the spawn tick that spawns; roll is the outcome of its Math.random() > 0.5
\* and spawn what the position function returns
SpawnRolls == {"humanoid", "ball"}

SpawnsOf(roll) ==
    IF roll = "humanoid" THEN HumanoidSpawns(width, height)
    ELSE RandomSpawns(width, height)

\* the left outcome of getHumanoidSpawnPosition
LeftSpawn ==
    CHOOSE spawn \in HumanoidSpawns(CanvasWidth, CanvasHeight) : spawn.direction = 1

SpawnTick(roll, spawn) ==
    /\ TimerRuns(isSpawning)
    /\ ~remountDue
    /\ IF roll = "humanoid"
       THEN /\ RoomFor("humanoid", 1, MaxHumanoids)
            /\ AddEntity(CreateHumanoidEntity(spawn.x, spawn.y))
            /\ humanoidData' =
                  Append(humanoidData, TimedRecord(NextId("humanoid"), spawn.direction))
       ELSE /\ RoomFor("ball", 1, MaxBalls)
            /\ AddEntity([CreateEntity(spawn.x, spawn.y)
                            EXCEPT !.vel = Pt(spawn.vx, spawn.vy)])
            /\ UNCHANGED humanoidData
    /\ UNCHANGED <<walls, currentStroke, isDrawing, lastPoint, cursorMode, isPlaying,
                   isSpawning, runnerOn, constraintOn, now, clearCount, remountDue,
                   width, height>>

\* a cleanup that takes what is off the canvas
OutOfBoundsAtEdge(pos, w, h) ==
    \/ pos[2] > h
    \/ pos[1] < 0
    \/ pos[1] > w

\* the cleanup predicate on a body's position
OutOfBounds(pos, w, h) ==
    \/ pos[2] > h + CleanupMargin
    \/ pos[1] < -CleanupMargin
    \/ pos[1] > w + CleanupMargin

\* a cleanup that leaves the humanoid records alone
SpliceNone(hd, id) == hd

\* humanoidDataRef.current.splice(findIndex(d => d.body === id), 1)
RECURSIVE SpliceFirst(_, _)
SpliceFirst(hd, id) ==
    IF hd = <<>> THEN <<>>
    ELSE IF hd[1].body = id THEN Tail(hd)
         ELSE <<hd[1]>> \o SpliceFirst(Tail(hd), id)

\* a cleanup that splices the entity list while it scans it: the entry that
\* follows a removed one is never looked at
RECURSIVE CleanupFromSkipping(_, _, _)
CleanupFromSkipping(es, w, hd) ==
    IF es = <<>> THEN [entities |-> <<>>, world |-> w, humanoidData |-> hd]
    ELSE IF OutOfBounds(bodies[es[1]].pos, width, height)
         THEN IF Len(es) = 1
              THEN [entities |-> <<>>, world |-> w \ {es[1]},
                    humanoidData |-> SpliceFirst(hd, es[1])]
              ELSE LET rest == CleanupFromSkipping(Tail(Tail(es)), w \ {es[1]},
                                                   SpliceFirst(hd, es[1]))
                   IN [rest EXCEPT !.entities = <<es[2]>> \o rest.entities]
         ELSE LET rest == CleanupFromSkipping(Tail(es), w, hd)
              IN [rest EXCEPT !.entities = <<es[1]>> \o rest.entities]

\* entitiesRef.current.filter(...) of the cleanup tick, entry by entry
RECURSIVE CleanupFrom(_, _, _)
CleanupFrom(es, w, hd) ==
    IF es = <<>> THEN [entities |-> <<>>, world |-> w, humanoidData |-> hd]
    ELSE IF OutOfBounds(bodies[es[1]].pos, width, height)
         THEN CleanupFrom(Tail(es), w \ {es[1]}, SpliceFirst(hd, es[1]))
         ELSE LET rest == CleanupFrom(Tail(es), w, hd)
              IN [rest EXCEPT !.entities = <<es[1]>> \o rest.entities]

CleanupTick ==
    /\ ~remountDue
    /\ LET done == CleanupFrom(entities, world, humanoidData)
       IN /\ entities' = done.entities
          /\ world' = done.world
          /\ humanoidData' = done.humanoidData
    /\ UNCHANGED <<bodies, walls, currentStroke, isDrawing, lastPoint, cursorMode,
                   isPlaying, isSpawning, runnerOn, constraintOn, now, clearCount,
                   remountDue,
                   width, height>>

(***************************************************************************)
(* Pointer handlers, erase, clear-all                                      *)
(***************************************************************************)
\* the positions the pointer of the model takes; every one lies on x = 100 and
\* their distances are multiples of 4, so the points of a stroke are integers
PointerPoints == {SkyPos, FloorPos, NearPos}

\* Matter.Query.point(Composite.allBodies(world), p), in the world's order
Hits(bd, w, p) == SortedSeq({i \in w : Hit(bd[i], p)})

\* the body b leaves the world and the three lists
Erased(st, b) ==
    [world |-> st.world \ {b},
     entities |-> Without(st.entities, {b}),
     walls |-> Without(st.walls, {b}),
     humanoidData |-> SelectSeq(st.humanoidData, LAMBDA d : d.body # b)]

\* erase without the label test: every hit leaves
RECURSIVE EraseFromAnyLabel(_, _, _)
EraseFromAnyLabel(hits, bd, st) ==
    IF hits = <<>> THEN st
    ELSE EraseFromAnyLabel(Tail(hits), bd, Erased(st, hits[1]))

\* erase of hits[0] alone instead of hits.forEach
EraseFromFirstHit(hits, bd, st) ==
    IF hits = <<>> THEN st
    ELSE IF Label(bd[hits[1]]) # "Ground" /\ Label(bd[hits[1]]) # "Ladder"
         THEN Erased(st, hits[1])
         ELSE st

\* hits.forEach of eraseAt: every hit that is neither the ground nor a ladder
\* leaves the world and the three lists
RECURSIVE EraseFrom(_, _, _)
EraseFrom(hits, bd, st) ==
    IF hits = <<>> THEN st
    ELSE LET b == hits[1]
         IN IF Label(bd[b]) # "Ground" /\ Label(bd[b]) # "Ladder"
            THEN EraseFrom(Tail(hits), bd, Erased(st, b))
            ELSE EraseFrom(Tail(hits), bd, st)

\* eraseAt(x, y) on a state of the world and the lists
EraseAt(bd, st, p) == EraseFrom(Hits(bd, st.world, p), bd, st)

Lists == [world |-> world, entities |-> entities, walls |-> walls,
          humanoidData |-> humanoidData]

\* Spawn Rain: RainBurst drops under every cloud among the hits
RECURSIVE RainFrom(_, _, _, _)
RainFrom(clouds, bd, w, es) ==
    IF clouds = <<>> THEN [bodies |-> bd, world |-> w, entities |-> es]
    ELSE LET parent == bd[clouds[1]]
             made == Cardinality(MadeOf(bd, "raindrop"))
             ids == {Id("raindrop", made + n) : n \in 1..RainBurst}
             drop == [CreateRainDropEntity(parent.pos[1], parent.pos[2] + RainDropDy)
                         EXCEPT !.vel = Pt(0, RainSpeed)]
         IN RainFrom(Tail(clouds),
                     bd @@ [i \in ids |-> drop],
                     w \cup ids,
                     es \o SortedSeq(ids))

HandlePointerDown(p) ==
    /\ ~remountDue
    /\ CASE cursorMode = "eraser" ->
              LET st == EraseAt(bodies, Lists, p)
              IN /\ world' = st.world
                 /\ entities' = st.entities
                 /\ walls' = st.walls
                 /\ humanoidData' = st.humanoidData
                 /\ isDrawing' = TRUE
                 /\ UNCHANGED <<bodies, lastPoint>>
         [] cursorMode = "draw" ->
              /\ isDrawing' = TRUE
              /\ lastPoint' = p
              /\ UNCHANGED <<bodies, world, entities, walls, humanoidData>>
         [] OTHER ->
              LET clouds == SelectSeq(Hits(bodies, world, p),
                                      LAMBDA i : Label(bodies[i]) = "Cloud")
                  rain == RainFrom(clouds, bodies, world, entities)
              IN /\ RoomFor("raindrop", RainBurst * Len(clouds), MaxRainDrops)
                 /\ bodies' = rain.bodies
                 /\ world' = rain.world
                 /\ entities' = rain.entities
                 /\ UNCHANGED <<walls, humanoidData, isDrawing, lastPoint>>
    /\ UNCHANGED <<currentStroke, cursorMode, isPlaying, isSpawning, runnerOn,
                   constraintOn, now, clearCount, remountDue,
                   width, height>>

\* handlers that do not ask whether a drag is in progress
DraggingOrNot == TRUE

\* the handlers of pointer-move and pointer-up return at once unless
\* isDrawingRef.current
Dragging == isDrawing

\* a pointer-move that lays one segment whatever the distance
StrokeStepsOne(lp, p) == 1

\* Math.max(1, Math.floor(Math.hypot(dx, dy) / 2))
StrokeSteps(lp, p) ==
    Max(1, Isqrt(((p[1] - lp[1]) * (p[1] - lp[1]) + (p[2] - lp[2]) * (p[2] - lp[2]))
                 \div (DrawStep * DrawStep)))

\* the i-th point of the stroke from lp to p, i = 0 .. steps - 1
StrokePoint(lp, p, i, steps) ==
    Pt(lp[1] + ((p[1] - lp[1]) * i) \div steps, lp[2] + ((p[2] - lp[2]) * i) \div steps)

HandlePointerMove(p) ==
    /\ ~remountDue
    /\ Dragging
    /\ CASE cursorMode = "eraser" ->
              LET st == EraseAt(bodies, Lists, p)
              IN /\ world' = st.world
                 /\ entities' = st.entities
                 /\ walls' = st.walls
                 /\ humanoidData' = st.humanoidData
                 /\ UNCHANGED <<bodies, currentStroke, lastPoint>>
         [] cursorMode = "draw" /\ lastPoint # NoPoint ->
              LET steps == StrokeSteps(lastPoint, p)
                  first == NextId("segment")
                  ids == first..(first + steps - 1)
              IN /\ RoomFor("segment", steps, MaxSegments)
                 /\ bodies' = bodies @@
                       [i \in ids |-> CreateSegment(StrokePoint(lastPoint, p, i - first, steps))]
                 /\ world' = world \cup ids
                 /\ currentStroke' = currentStroke \o SortedSeq(ids)
                 /\ lastPoint' = p
                 /\ UNCHANGED <<entities, walls, humanoidData>>
         [] OTHER ->
              UNCHANGED <<bodies, world, entities, walls, humanoidData, currentStroke,
                          lastPoint>>
    /\ UNCHANGED <<isDrawing, cursorMode, isPlaying, isSpawning, runnerOn,
                   constraintOn, now, clearCount, remountDue,
                   width, height>>

\* the fusing branch of handlePointerUp is taken
Fuses == cursorMode = "draw" /\ Len(currentStroke) > 0

\* the fuse that forgets to take the segments out of the world
FuseWorldKeepsSegments(w, stroke, compound) == w \cup {compound}

\* parts.forEach(p => World.remove(world, p)); World.add(world, compound)
FuseWorld(w, stroke, compound) == (w \ SeqToSet(stroke)) \cup {compound}

HandlePointerUp ==
    /\ ~remountDue
    /\ Dragging
    /\ isDrawing' = FALSE
    /\ IF Fuses
       THEN /\ bodies' = bodies @@
                  (NextId("line") :>
                      CreateLine({bodies[i].pos : i \in SeqToSet(currentStroke)}, now))
            /\ world' = FuseWorld(world, currentStroke, NextId("line"))
            /\ walls' = Append(walls, NextId("line"))
            /\ currentStroke' = <<>>
       ELSE UNCHANGED <<bodies, world, walls, currentStroke>>
    /\ lastPoint' = NoPoint
    /\ UNCHANGED <<entities, humanoidData, cursorMode, isPlaying, isSpawning,
                   runnerOn, constraintOn, now, clearCount, remountDue,
                   width, height>>

\* handleClear: every wall-list body leaves the world, the list is emptied and
\* onClear() tells the page, which changes the component's key
HandleClear ==
    /\ ~remountDue
    /\ clearCount < MaxClears
    /\ world' = world \ SeqToSet(walls)
    /\ walls' = <<>>
    /\ clearCount' = clearCount + 1
    /\ remountDue' = TRUE
    /\ UNCHANGED <<bodies, entities, humanoidData, currentStroke, isDrawing,
                   lastPoint, cursorMode, isPlaying, isSpawning, runnerOn,
                   constraintOn, now, width, height>>

\* the page renders the component under its new key: the old one is torn down
\* and a new one mounts
Remount ==
    /\ remountDue
    /\ \E bubbleAt \in [InitBubbleIds -> InitBubblePositions] :
          bodies' = MountBodies(bubbleAt)
    /\ world' = MountIds
    /\ walls' = <<GroundId>>
    /\ entities' = SortedSeq(InitCloudIds \cup InitBubbleIds)
    /\ humanoidData' = <<>>
    /\ currentStroke' = <<>>
    /\ isDrawing' = FALSE
    /\ lastPoint' = NoPoint
    /\ cursorMode' = "draw"
    /\ isPlaying' = TRUE
    /\ isSpawning' = TRUE
    /\ runnerOn' = TRUE
    /\ constraintOn' = FALSE
    /\ remountDue' = FALSE
    /\ UNCHANGED <<now, clearCount, width, height>>

\* setCursorMode(m) and the effect on [cursorMode]
SetCursorMode(m) ==
    /\ ~remountDue
    /\ cursorMode' = m
    /\ constraintOn' = (m = "grab")
    /\ UNCHANGED <<bodies, world, walls, entities, humanoidData, currentStroke,
                   isDrawing, lastPoint, isPlaying, isSpawning, runnerOn, now,
                   clearCount, remountDue,
                   width, height>>

TogglePause ==
    /\ ~remountDue
    /\ isPlaying' = ~isPlaying
    /\ isSpawning' = ~isPlaying
    /\ runnerOn' = ~isPlaying
    /\ UNCHANGED <<bodies, world, walls, entities, humanoidData, currentStroke,
                   isDrawing, lastPoint, cursorMode, constraintOn, now, clearCount,
                   remountDue,
                   width, height>>

(***************************************************************************)
(* Toolbar buttons                                                         *)
(***************************************************************************)
SpawnHumanoidButton ==
    /\ ~remountDue
    /\ RoomFor("humanoid", 1, MaxHumanoids)
    /\ \E spawn \in HumanoidSpawns(CanvasWidth, 600) :
          /\ AddEntity(CreateHumanoidEntity(spawn.x, spawn.y))
          /\ humanoidData' =
                Append(humanoidData, ButtonRecord(NextId("humanoid"), spawn.direction))
    /\ UNCHANGED <<walls, currentStroke, isDrawing, lastPoint, cursorMode, isPlaying,
                   isSpawning, runnerOn, constraintOn, now, clearCount, remountDue,
                   width, height>>

SpawnBallButton ==
    /\ ~remountDue
    /\ RoomFor("ball", 1, MaxBalls)
    /\ \E spawn \in RandomSpawns(CanvasWidth, 600) :
          AddEntity([CreateEntity(spawn.x, spawn.y) EXCEPT !.vel = Pt(spawn.vx, spawn.vy)])
    /\ UNCHANGED <<walls, humanoidData, currentStroke, isDrawing, lastPoint,
                   cursorMode, isPlaying, isSpawning, runnerOn, constraintOn, now,
                   clearCount, remountDue,
                   width, height>>

\* the ladder appears at width / 2 + (random - 0.5) * 200, 200; the draw of the
\* model puts its left rail on x = 100
LadderSpawnX == HumanoidSpawnX + LadderHalfW - 3

SpawnLadderButton ==
    /\ ~remountDue
    /\ RoomFor("ladder", 1, MaxLadders)
    /\ AddEntity(CreateLadderEntity(LadderSpawnX, LadderSpawnY))
    /\ UNCHANGED <<walls, humanoidData, currentStroke, isDrawing, lastPoint,
                   cursorMode, isPlaying, isSpawning, runnerOn, constraintOn, now,
                   clearCount, remountDue,
                   width, height>>

\* the floating bar appears at width / 2 + (random - 0.5) * 200, height / 2;
\* the draw of the model is the middle
SpawnFloatingBarButton ==
    /\ ~remountDue
    /\ RoomFor("floatingbar", 1, MaxBars)
    /\ AddEntity(CreateFloatingBarEntity(CanvasWidth \div 2, CanvasHeight \div 2))
    /\ UNCHANGED <<walls, humanoidData, currentStroke, isDrawing, lastPoint,
                   cursorMode, isPlaying, isSpawning, runnerOn, constraintOn, now,
                   clearCount, remountDue,
                   width, height>>

\* the mouse constraint made at the mount follows the canvas's mouse in every
\* mode: a press on a floating bar makes the bar its body ...
MouseGrab ==
    /\ ~remountDue
    /\ runnerOn
    /\ \A j \in DOMAIN bodies : ~bodies[j].grabbed
    /\ \E i \in world :
          /\ bodies[i].kind = "floatingbar"
          /\ bodies' = [bodies EXCEPT ![i].grabbed = TRUE]
    /\ UNCHANGED <<world, walls, entities, humanoidData, currentStroke, isDrawing,
                   lastPoint, cursorMode, isPlaying, isSpawning, runnerOn,
                   constraintOn, now, clearCount, remountDue,
                   width, height>>

\* ... and the release sets its body to null
MouseRelease ==
    /\ ~remountDue
    /\ runnerOn
    /\ \E j \in DOMAIN bodies : bodies[j].grabbed
    /\ bodies' = [j \in DOMAIN bodies |-> [bodies[j] EXCEPT !.grabbed = FALSE]]
    /\ UNCHANGED <<world, walls, entities, humanoidData, currentStroke, isDrawing,
                   lastPoint, cursorMode, isPlaying, isSpawning, runnerOn,
                   constraintOn, now, clearCount, remountDue,
                   width, height>>

\* the roulette appears at width / 2 + (random - 0.5) * 300, 200; the draw of
\* the model is the middle
SpawnRouletteButton ==
    /\ ~remountDue
    /\ RoomFor("roulette", 1, MaxRoulettes)
    /\ AddEntity(CreateRouletteEntity(CanvasWidth \div 2, RouletteSpawnY))
    /\ UNCHANGED <<walls, humanoidData, currentStroke, isDrawing, lastPoint,
                   cursorMode, isPlaying, isSpawning, runnerOn, constraintOn, now,
                   clearCount, remountDue,
                   width, height>>

(***************************************************************************)
(* AI tick                                                                 *)
(***************************************************************************)
\* Matter.Query.point(wallsRef.current, p).length > 0
WallAt(bd, wl, p) == \E k \in 1..Len(wl) : Hit(bd[wl[k]], p)

\* Matter.Bounds.overlaps(body.bounds, ladder.bounds), the bounds being the
\* humanoid's 20 x 34 box and the ladder's 60 x 180 box
OverlapsLadder(h, ladder) ==
    /\ h.pos[1] - HumanoidHalfW <= ladder.pos[1] + LadderHalfW
    /\ h.pos[1] + HumanoidHalfW >= ladder.pos[1] - LadderHalfW
    /\ h.pos[2] + HumanoidHalfH >= ladder.pos[2] - LadderHalfH
    /\ h.pos[2] - HumanoidHalfH <= ladder.pos[2] + LadderHalfH

\* x * 0.5 on tenths
Half(v) == IF v >= 0 THEN v \div 2 ELSE -((-v) \div 2)

\* a default mask that lets humanoids collide with every category
DefaultMaskAll == EngineMask

\* const defaultMask = 0x0001 | 0x0002 | 0x0020
DefaultMask == CATEGORY_DEFAULT + CATEGORY_DYNAMIC + CATEGORY_PLATEFORM

\* a filter that keeps the platform bit while climbing
ClimbMaskKeepsPlatform(isClimbing, isOnLadderTop) == DefaultMask

\* Collision Filtering for Climbing through Platforms
ClimbMask(isClimbing, isOnLadderTop) ==
    IF isClimbing /\ ~isOnLadderTop THEN ClearBit(DefaultMask, CATEGORY_PLATEFORM)
    ELSE DefaultMask

\* the random draws of one humanoid in one tick: the 20 % grab and the length
\* of the hang, or no grab and the 2 % idle hop (a tick that grabs returns
\* before the hop is drawn, one that does not grab draws no length)
HangDraws == {HangMin, HangMin + HangSpread - 1}

Draws ==
    {[grab |-> TRUE, hang |-> h, hop |-> FALSE] : h \in HangDraws}
        \cup {[grab |-> FALSE, hang |-> HangMin, hop |-> x] : x \in BOOLEAN}

\* Matter.Body.applyForce(body, body.position, f): the force adds up until the
\* engine's next step
ApplyForce(b, f) == [b EXCEPT !.force = Pt(b.force[1] + f[1], b.force[2] + f[2])]

\* a tick that never calls Body.setAngle
SetAngleNever(b, a) == b

\* Matter.Body.setAngle(body, a)
SetAngle(b, a) == [b EXCEPT !.angle = a]

\* a climb that never looks above the head
ClimbVelUp(headBlocked) == -ClimbUpVel

\* const vY = headBlocked ? 2 : -1.5
ClimbVel(headBlocked) == IF headBlocked THEN ClimbDownVel ELSE -ClimbUpVel

\* a walk that sets both components of the velocity
WalkFlat(b, d) ==
    [body |-> [SetAngle(b, 0) EXCEPT !.vel = Pt(d.direction * WalkSpeed, 0)],
     data |-> [d EXCEPT !.legPhase = d.legPhase + 1]]

\* the walking part of the tick, from "Walk logic" on: b is the body after
\* the ladder and hanging logic, d the record
Walk(b, d) ==
    LET walked == [SetAngle(b, 0) EXCEPT !.vel = Pt(d.direction * WalkSpeed, b.vel[2])]
        stuck == Abs(walked.vel[1]) < StuckVel /\ Abs(walked.vel[2]) < StuckVel
        counted == IF stuck THEN d.stuckCounter + 1 ELSE 0
        jumped == IF stuck /\ counted = EscapeJumpAt
                  THEN [walked EXCEPT !.vel = Pt(walked.vel[1], -EscapeJumpVel)]
                  ELSE walked
        turns == stuck /\ counted > StuckTurnAfter
    IN [body |-> jumped,
        data |-> [d EXCEPT !.direction = IF turns THEN -d.direction ELSE d.direction,
                           !.stuckCounter = IF turns THEN 0 ELSE counted,
                           !.legPhase = d.legPhase + 1]]

\* a jump logic that does not ask whether the humanoid is grounded
GroundedAlways(b) == TRUE

\* Math.abs(body.velocity.y) < 0.1
Grounded(b) == Abs(b.vel[2]) < GroundedVel

\* "Jump logic (Obstacle)" at the end of the tick, on what the walk logic left:
\* the obstacle jump, else the idle hop when its draw says so
Jump(bd, wl, r, hop) ==
    LET b == r.body
        isBlockedFront ==
            WallAt(bd, wl, Pt(b.pos[1] + r.data.direction * FrontProbeDx, b.pos[2]))
    IN [body |-> IF isBlockedFront /\ Grounded(b)
                 THEN ApplyForce(b, Pt(r.data.direction * ObstacleJumpFx, -ObstacleJumpFy))
                 ELSE IF hop /\ Grounded(b)
                      THEN ApplyForce(b, Pt(0, -HopFy))
                      ELSE b,
        data |-> r.data]

\* a grab that does not ask whether the humanoid is in the air
AirborneAlways(b) == TRUE

\* Math.abs(body.velocity.y) > 1
Airborne(b) == Abs(b.vel[2]) > AirborneVel

\* a hold that does not count down
HoldNoCount(b, d) ==
    [body |-> ApplyForce([SetAngle(b, 0) EXCEPT !.vel = Pt(0, 0)], Pt(0, -HoldFy)),
     data |-> d]

\* a hold that lets the humanoid keep its velocity
HoldMoving(b, d) ==
    [body |-> ApplyForce(SetAngle(b, 0), Pt(0, -HoldFy)),
     data |-> [d EXCEPT !.hangingCounter = d.hangingCounter - 1]]

\* "Process Hanging" for a record whose counter is positive
Hold(b, d) ==
    [body |-> ApplyForce([SetAngle(b, 0) EXCEPT !.vel = Pt(0, 0)], Pt(0, -HoldFy)),
     data |-> [d EXCEPT !.hangingCounter = d.hangingCounter - 1]]

\* the hanging part of the tick, for a humanoid that is not climbing
HangOrWalk(bd, wl, b, d0, draw) ==
    LET d == [d0 EXCEPT !.hangingSet = TRUE]
        touching == WallAt(bd, wl, Pt(b.pos[1] + d.direction * HangProbeDx,
                                     b.pos[2] - HangProbeDy))
        grabs == /\ d.hangingCounter = 0
                 /\ touching
                 /\ Airborne(b)
                 /\ draw.grab
        started == IF grabs THEN [b EXCEPT !.vel = Pt(0, 0)] ELSE b
        counter == IF grabs THEN draw.hang ELSE d.hangingCounter
    IN IF counter > 0
       THEN Hold(started, [d EXCEPT !.hangingCounter = counter])
       ELSE Jump(bd, wl, Walk(b, d), draw.hop)

\* the body of humanoidDataRef.current.forEach for the record d, after the
\* early return
AiActive(bd, wl, es, d, draw) ==
    LET b == bd[d.body]
        ladders == SelectSeq(es, LAMBDA e : Label(bd[e]) = "Ladder")
        over == {k \in 1..Len(ladders) : OverlapsLadder(b, bd[ladders[k]])}
        ladder == bd[ladders[SetMin(over)]]
        onTop == over # {} /\ b.pos[2] < ladder.pos[2] - LadderHalfH + LadderTopMargin
        climbing == over # {} /\ ~onTop
        headBlocked == WallAt(bd, wl, Pt(b.pos[1], b.pos[2] - HeadProbeDy))
        moved ==
            IF onTop THEN [b EXCEPT !.vel = Pt(b.vel[1], Half(b.vel[2]))]
            ELSE IF climbing
                 THEN [b EXCEPT !.vel = Pt((ladder.pos[1] - b.pos[1]) * 2,
                                           ClimbVel(headBlocked))]
                 ELSE b
        masked == [moved EXCEPT !.isOnLadderTop = onTop,
                                !.mask = ClimbMask(climbing, onTop)]
        flagged == [d EXCEPT !.isClimbing = climbing,
                             !.legPhase = IF climbing THEN d.legPhase + 1
                                                      ELSE d.legPhase]
    IN IF climbing THEN [body |-> SetAngle(masked, 0), data |-> flagged]
       ELSE HangOrWalk(bd, wl, masked, flagged, draw)

\* a tick that goes on to the hanging and walking logic after a climb
AiOneClimbsOn(bd, wl, es, d, draw) ==
    IF bd[d.body].inBubble THEN [body |-> bd[d.body], data |-> d]
    ELSE LET r == AiActive(bd, wl, es, d, draw)
         IN IF r.data.isClimbing THEN HangOrWalk(bd, wl, r.body, r.data, draw)
            ELSE r

\* the tick without its early return for a humanoid in a bubble
AiOneNoSkip(bd, wl, es, d, draw) == AiActive(bd, wl, es, d, draw)

\* the body of humanoidDataRef.current.forEach for the record d
AiOne(bd, wl, es, d, draw) ==
    IF bd[d.body].inBubble THEN [body |-> bd[d.body], data |-> d]
    ELSE AiActive(bd, wl, es, d, draw)

\* the records in order; draws[k] are the random draws of the k-th record
RECURSIVE AiFrom(_, _, _, _, _, _)
AiFrom(k, hd, bd, wl, es, draws) ==
    IF k > Len(hd) THEN [bodies |-> bd, humanoidData |-> hd]
    ELSE LET r == AiOne(bd, wl, es, hd[k], draws[k])
         IN AiFrom(k + 1, [hd EXCEPT ![k] = r.data],
                   [bd EXCEPT ![hd[k].body] = r.body], wl, es, draws)

AiStep ==
    /\ ~remountDue
    /\ TimerRuns(isSpawning)
    /\ \E draws \in [1..Len(humanoidData) -> Draws] :
          LET r == AiFrom(1, humanoidData, bodies, walls, entities, draws)
          IN /\ bodies' = r.bodies
             /\ humanoidData' = r.humanoidData
    /\ UNCHANGED <<world, walls, entities, currentStroke, isDrawing, lastPoint,
                   cursorMode, isPlaying, isSpawning, runnerOn, constraintOn, now,
                   clearCount, remountDue,
                   width, height>>

\* the AI tick of the model: the leg animation is followed for MaxLegPhase steps
AiTick ==
    /\ humanoidData # <<>>
    /\ \A k \in 1..Len(humanoidData) : humanoidData[k].legPhase < MaxLegPhase
    /\ AiStep

(***************************************************************************)
(* The component                                                           *)
(***************************************************************************)
Next ==
    \/ PhysicsStep
    \/ PhysicsMove
    \/ PhysicsFall
    \/ PhysicsBlock
    \/ PhysicsClimb
    \/ PhysicsLeave
    \/ PhysicsDrop
    \/ PhysicsTilt
    \/ \E a, b \in world : CollisionStart(a, b)
    \/ AdvanceClock
    \/ AiTick
    \/ \E roll \in SpawnRolls : \E spawn \in SpawnsOf(roll) : SpawnTick(roll, spawn)
    \/ CleanupTick
    \/ \E p \in PointerPoints : HandlePointerDown(p)
    \/ \E p \in PointerPoints : HandlePointerMove(p)
    \/ HandlePointerUp
    \/ HandleClear
    \/ Remount
    \/ \E m \in {"draw", "grab", "eraser"} : SetCursorMode(m)
    \/ TogglePause
    \/ SpawnHumanoidButton
    \/ SpawnBallButton
    \/ SpawnLadderButton
    \/ SpawnRouletteButton
    \/ SpawnFloatingBarButton
    \/ MouseGrab
    \/ MouseRelease
    \/ PhysicsPush

Spec == Init /\ [][Next]_vars

(***************************************************************************)
(* Sub-specifications: the component with a part of its environment.  Each *)
(* one starts from Init and takes a subset of the steps of Next.           *)
(***************************************************************************)
\* bubbles and humanoids: the engine, the AI tick, the spawner, the cleanup
NextCapture ==
    \/ PhysicsStep
    \/ PhysicsMove
    \/ AiTick
    \/ \E spawn \in SpawnsOf("humanoid") : SpawnTick("humanoid", spawn)
    \/ CleanupTick

SpecCapture == Init /\ [][NextCapture]_vars

\* the pointer in the three modes
NextStroke ==
    \/ \E p \in PointerPoints : HandlePointerDown(p)
    \/ \E p \in PointerPoints : HandlePointerMove(p)
    \/ HandlePointerUp
    \/ \E m \in {"draw", "grab", "eraser"} : SetCursorMode(m)

SpecStroke == Init /\ [][NextStroke]_vars

\* drawing and erasing among humanoids, bubbles, a cloud, a ladder
NextErase ==
    \/ \E p \in PointerPoints : HandlePointerDown(p)
    \/ \E p \in PointerPoints : HandlePointerMove(p)
    \/ HandlePointerUp
    \/ \E m \in {"draw", "eraser"} : SetCursorMode(m)
    \/ SpawnTick("humanoid", LeftSpawn)
    \/ SpawnLadderButton

SpecErase == Init /\ [][NextErase]_vars

\* the pointer in the three modes, the engine, the cleanup: clouds and rain
NextRain ==
    \/ \E p \in PointerPoints : HandlePointerDown(p)
    \/ \E m \in {"draw", "grab", "eraser"} : SetCursorMode(m)
    \/ PhysicsStep
    \/ PhysicsMove
    \/ CleanupTick

SpecRain == Init /\ [][NextRain]_vars

\* drawing, the ladder button, clear-all and the remount it causes
NextClear ==
    \/ \E p \in PointerPoints : HandlePointerDown(p)
    \/ \E p \in PointerPoints : HandlePointerMove(p)
    \/ HandlePointerUp
    \/ SpawnLadderButton
    \/ HandleClear
    \/ Remount

SpecClear == Init /\ [][NextClear]_vars

\* humanoids that walk while a wall holds them: between two AI ticks the
\* engine has brought every humanoid of the world to rest
RightSpawn ==
    CHOOSE spawn \in HumanoidSpawns(CanvasWidth, CanvasHeight) : spawn.direction = -1

HeldByWall ==
    \A k \in 1..Len(humanoidData) : bodies[humanoidData[k].body].vel = Pt(0, 0)

MaxStuckTicks == StuckTurnAfter + 2

AiTickHeld ==
    /\ humanoidData # <<>>
    /\ HeldByWall
    /\ \A k \in 1..Len(humanoidData) : humanoidData[k].legPhase < MaxStuckTicks
    /\ AiStep

NextStuck ==
    \/ SpawnTick("humanoid", RightSpawn)
    \/ PhysicsBlock
    \/ AiTickHeld

SpecStuck == Init /\ [][NextStuck]_vars

\* humanoids on a ladder and in bubbles
NextMasks ==
    \/ SpawnLadderButton
    \/ \E spawn \in SpawnsOf("humanoid") : SpawnTick("humanoid", spawn)
    \/ PhysicsStep
    \/ PhysicsClimb
    \/ AiTick

SpecMasks == Init /\ [][NextMasks]_vars

\* humanoids on a ladder, under a drawn line or not, tilted or not
NextClimb ==
    \/ SpawnLadderButton
    \/ SpawnTick("humanoid", RightSpawn)
    \/ PhysicsClimb
    \/ PhysicsTilt
    \/ AiTick
    \/ HandlePointerDown(SkyPos)
    \/ HandlePointerMove(SkyPos)
    \/ HandlePointerUp

SpecClimb == Init /\ [][NextClimb]_vars

\* the pause button, the two timers it gates and the engine it stops
NextPause ==
    \/ TogglePause
    \/ AiTick
    \/ \E roll \in SpawnRolls : \E spawn \in SpawnsOf(roll) : SpawnTick(roll, spawn)
    \/ PhysicsStep

SpecPause == Init /\ [][NextPause]_vars

\* humanoids made by the timer and by the button, moved by the engine, taken
\* away by the cleanup and by the eraser
NextRecords ==
    \/ \E spawn \in SpawnsOf("humanoid") : SpawnTick("humanoid", spawn)
    \/ SpawnHumanoidButton
    \/ PhysicsMove
    \/ CleanupTick
    \/ \E m \in {"draw", "eraser"} : SetCursorMode(m)
    \/ HandlePointerDown(FloorPos)

SpecRecords == Init /\ [][NextRecords]_vars

\* the roulette, the collisions the engine reports and its steps
NextRoulette ==
    \/ SpawnRouletteButton
    \/ \E a, b \in world : CollisionStart(a, b)
    \/ PhysicsStep

SpecRoulette == Init /\ [][NextRoulette]_vars

\* strokes drawn at one point, the wall clock and the engine
NextAging ==
    \/ HandlePointerDown(SkyPos)
    \/ HandlePointerMove(SkyPos)
    \/ HandlePointerUp
    \/ AdvanceClock
    \/ PhysicsStep

SpecAging == Init /\ [][NextAging]_vars

\* floating bars under the pointer in the modes draw and grab, and the engine
NextFloat ==
    \/ SpawnFloatingBarButton
    \/ MouseGrab
    \/ MouseRelease
    \/ PhysicsPush
    \/ PhysicsStep
    \/ \E m \in {"draw", "grab"} : SetCursorMode(m)

SpecFloat == Init /\ [][NextFloat]_vars

\* humanoids on and off a ladder that walk, climb and jump: the AI tick is
\* followed for MaxWalkTicks leg steps
AiTickWalk ==
    /\ humanoidData # <<>>
    /\ \A k \in 1..Len(humanoidData) : humanoidData[k].legPhase < MaxWalkTicks
    /\ AiStep

NextWalk ==
    \/ SpawnLadderButton
    \/ SpawnTick("humanoid", RightSpawn)
    \/ PhysicsClimb
    \/ PhysicsLeave
    \/ AiTickWalk

SpecWalk == Init /\ [][NextWalk]_vars

\* humanoids that fall beside the ground's edge: they grab it, hang, walk on;
\* between two AI ticks (100 ms) the engine (16 ms) has stepped and used up
\* the forces of the tick before
ForcesUsedUp == \A i \in world : bodies[i].force = Pt(0, 0)

AiTickStepped == ForcesUsedUp /\ AiTick

NextHang ==
    \/ SpawnTick("humanoid", RightSpawn)
    \/ PhysicsFall
    \/ PhysicsDrop
    \/ AiTickStepped

SpecHang == Init /\ [][NextHang]_vars

(***************************************************************************)
(* The registry                                                            *)
(***************************************************************************)
\* C1: in every reachable state every body of the entity list and of the wall
\* list is in the world; a raindrop that the rain teardown took out of the
\* world is not in the entity list any more
RegistryInWorld ==
    (SeqToSet(entities) \cup SeqToSet(walls)) \subseteq world

(***************************************************************************)
(* Bubble capture                                                          *)
(***************************************************************************)
\* the bubbles that hold the humanoid h
HoldersOf(h) ==
    {b \in DOMAIN bodies : IsBubble(bodies[b]) /\ bodies[b].containedEntity = h}

\* C2: in every reachable state every humanoid is the containedEntity of at
\* most one bubble, also when it was in reach of two empty bubbles in one pass
OneBubblePerHumanoid ==
    \A h \in DOMAIN bodies : IsHumanoid(bodies[h]) => Cardinality(HoldersOf(h)) <= 1

\* a humanoid is held by one bubble while a second bubble of the world, still
\* empty, is within the capture radius of it
CapturedBesideEmptyBubble ==
    \E h \in world : \E b \in world :
        /\ IsHumanoid(bodies[h])
        /\ bodies[h].inBubble
        /\ HoldersOf(h) # {}
        /\ IsBubble(bodies[b])
        /\ bodies[b].containedEntity = NoBody
        /\ DistLess(bodies[h].pos, bodies[b].pos, CaptureRadius)

\* C3: once a bubble holds a humanoid, no step gives the bubble another
\* passenger or none while the bubble and the humanoid stay in the world
PassengerKept ==
    [][\A b \in world :
          (/\ IsBubble(bodies[b])
           /\ bodies[b].containedEntity # NoBody
           /\ bodies[b].containedEntity \in world
           /\ b \in world'
           /\ bodies[b].containedEntity \in world')
          => bodies'[b].containedEntity = bodies[b].containedEntity]_vars

\* a bubble of the world holds a humanoid while another humanoid of the world,
\* not in any bubble, is within the capture radius of that bubble and of no
\* empty one
FreeHumanoidBesideFullBubble ==
    \E b \in world : \E h \in world :
        /\ IsBubble(bodies[b])
        /\ bodies[b].containedEntity \in world \ {h}
        /\ IsHumanoid(bodies[h])
        /\ ~bodies[h].inBubble
        /\ DistLess(bodies[h].pos, bodies[b].pos, CaptureRadius)
        /\ \A e \in world :
              (IsBubble(bodies[e]) /\ bodies[e].containedEntity = NoBody)
              => ~DistLess(bodies[h].pos, bodies[e].pos, CaptureRadius)

\* C4: in every reachable state a humanoid marked inBubble has the mask that
\* collides with CATEGORY_DEFAULT only
ContainedMaskNarrow ==
    \A h \in DOMAIN bodies :
        (IsHumanoid(bodies[h]) /\ bodies[h].inBubble) => bodies[h].mask = CATEGORY_DEFAULT

\* a humanoid whose mask an AI tick had set to the default mask is in a bubble
CapturedAfterAiTick ==
    \E k \in 1..Len(humanoidData) :
        /\ humanoidData[k].legPhase > 0
        /\ bodies[humanoidData[k].body].inBubble
        /\ bodies[humanoidData[k].body].mask = CATEGORY_DEFAULT

(***************************************************************************)
(* Strokes                                                                 *)
(***************************************************************************)
\* C5: the pointer-up that ends a drag of draw mode with segments in the
\* accumulator puts exactly one new compound, made of the drag's points, on the
\* wall list and in the world, leaves none of the drag's segments in the world
\* and empties the accumulator
StrokeFused ==
    [][(HandlePointerUp /\ Fuses) =>
          /\ currentStroke' = <<>>
          /\ world' \cap SeqToSet(currentStroke) = {}
          /\ \E c \in world' :
                /\ c \notin DOMAIN bodies
                /\ world' \ world = {c}
                /\ walls' = Append(walls, c)
                /\ IsLine(bodies'[c])
                /\ bodies'[c].parts = {bodies[i].pos : i \in SeqToSet(currentStroke)}]_vars

\* a compound of two parts is on the wall list and in the world, the drag is
\* over, the accumulator is empty and no segment is in the world
TwoPartStrokeFused ==
    /\ ~isDrawing
    /\ currentStroke = <<>>
    /\ \A i \in world : bodies[i].kind # "segment"
    /\ MadeOf(bodies, "segment") # {}
    /\ \E c \in world :
          /\ IsLine(bodies[c])
          /\ Cardinality(bodies[c].parts) = 2
          /\ \E k \in 1..Len(walls) : walls[k] = c

(***************************************************************************)
(* Erase                                                                   *)
(***************************************************************************)
\* the step is an eraseAt(p): a pointer-down or a pointer-move of eraser mode
ErasesAt(p) ==
    /\ cursorMode = "eraser"
    /\ HandlePointerDown(p) \/ HandlePointerMove(p)

\* the body may be erased: it is tagged neither ground nor ladder
Erasable(b) == Label(b) # "Ground" /\ Label(b) # "Ladder"

\* the centre c of a stroke part is within the erase radius (20 px) of p
WithinEraseRadius(c, p) == DistLess(c, p, 20 + 1)

\* C6: after eraseAt(p) every body the erase hit, tagged neither ground nor
\* ladder, is out of the world, of the wall list, of the entity list and of the
\* humanoid records, and so is every stroke compound of the world that has a
\* part within the erase radius of p
ErasedWithinRadius ==
    [][\A p \in PointerPoints : ErasesAt(p) =>
          /\ \A b \in world : (Hit(bodies[b], p) /\ Erasable(bodies[b])) =>
                /\ b \notin world'
                /\ b \notin SeqToSet(walls')
                /\ b \notin SeqToSet(entities')
                /\ \A k \in 1..Len(humanoidData') : humanoidData'[k].body # b
          /\ \A b \in world :
                (IsLine(bodies[b]) /\ \E c \in bodies[b].parts : WithinEraseRadius(c, p)) =>
                   b \notin world' /\ b \notin SeqToSet(walls')]_vars

\* C7: no eraseAt takes a body tagged ground or ladder out of the world or out
\* of the list that holds it
ProtectedSurviveErase ==
    [][\A p \in PointerPoints : ErasesAt(p) =>
          \A b \in world : ~Erasable(bodies[b]) =>
             /\ b \in world'
             /\ b \in SeqToSet(walls) => b \in SeqToSet(walls')
             /\ b \in SeqToSet(entities) => b \in SeqToSet(entities')]_vars

\* the eraser has taken the bubbles off a point of the ground and the cloud
\* off a point of the ladder's top bar; the ground and the ladder are there
ErasedOverGroundAndLadder ==
    /\ cursorMode = "eraser"
    /\ GroundId \in world
    /\ walls # <<>> /\ walls[1] = GroundId
    /\ \E e \in InitBubbleIds \ world :
          \E p \in PointerPoints : Hit(bodies[e], p) /\ Hit(bodies[GroundId], p)
    /\ \E l \in world :
          /\ Label(bodies[l]) = "Ladder"
          /\ \E k \in 1..Len(entities) : entities[k] = l
          /\ \E e \in InitCloudIds \ world :
                \E p \in PointerPoints : Hit(bodies[e], p) /\ Hit(bodies[l], p)

\* C8: eraseAt(p) right after eraseAt(p) changes nothing: the world, the wall
\* list, the entity list and the humanoid records are those of the first call
EraseIdempotent ==
    \A p \in PointerPoints :
        EraseAt(bodies, EraseAt(bodies, Lists, p), p) = EraseAt(bodies, Lists, p)

\* in eraser mode, at a point where two bodies were erased together, a further
\* eraseAt finds bodies but erases none
ErasedTwiceAtPoint ==
    /\ cursorMode = "eraser"
    /\ isDrawing
    /\ \E p \in PointerPoints :
          /\ InitBubbleIds \cap world = {}
          /\ \A e \in InitBubbleIds : Hit(bodies[e], p)
          /\ Hits(bodies, world, p) # <<>>
          /\ EraseAt(bodies, Lists, p) = Lists

(***************************************************************************)
(* Clear-all                                                               *)
(***************************************************************************)
\* C9: clear-all takes every stroke of the wall list out of the world and
\* leaves no stroke on the wall list, leaves the ground and every ladder in the
\* world, and tells the page once
ClearKeepsGround ==
    [][HandleClear =>
          /\ \A k \in 1..Len(walls) : IsLine(bodies[walls[k]]) => walls[k] \notin world'
          /\ \A k \in 1..Len(walls') : ~IsLine(bodies'[walls'[k]])
          /\ \A b \in world : ~Erasable(bodies[b]) => b \in world'
          /\ clearCount' = clearCount + 1]_vars

(***************************************************************************)
(* Stuck detection                                                         *)
(***************************************************************************)
\* C10: a humanoid that walks while a wall holds it (every AI tick finds it at
\* rest, no ladder, no hang, no bubble) has turned around, with stuckCounter 0,
\* once the ticks that `stuckCounter > 90` asks for have passed; under
\* SpecStuck legPhase counts these ticks
StuckTurnsAround ==
    \A k \in 1..Len(humanoidData) :
        humanoidData[k].legPhase = StuckTurnAfter + 1 =>
            /\ humanoidData[k].direction = -RightSpawn.direction
            /\ humanoidData[k].stuckCounter = 0

(***************************************************************************)
(* Ladders, angle, masks                                                   *)
(***************************************************************************)
\* the probe above the head of the humanoid b finds a wall-list body
HeadBlocked(b) == WallAt(bodies, walls, Pt(b.pos[1], b.pos[2] - HeadProbeDy))

\* the humanoid b overlaps a ladder of the entity list under its top margin
UnderLadderTop(b) ==
    \E l \in SeqToSet(entities) :
        /\ Label(bodies[l]) = "Ladder"
        /\ OverlapsLadder(b, bodies[l])
        /\ b.pos[2] >= bodies[l].pos[2] - LadderHalfH + LadderTopMargin

\* C11: an AI tick leaves every humanoid that is in no bubble and overlaps a
\* ladder under its top margin with isClimbing set and with the vertical
\* velocity -1.5 when the probe above its head finds no wall-list body, +2.0
\* when it finds one
ClimbsLadder ==
    [][AiTick =>
          \A k \in 1..Len(humanoidData) :
             LET b == bodies[humanoidData[k].body]
             IN (~b.inBubble /\ UnderLadderTop(b)) =>
                   /\ humanoidData'[k].isClimbing
                   /\ bodies'[humanoidData[k].body].vel[2] =
                         IF HeadBlocked(b) THEN 20 ELSE -15]_vars

\* a humanoid on the ladder, a drawn line above its head, climbs down
ClimbsDownUnderLine ==
    \E k \in 1..Len(humanoidData) :
        LET b == bodies[humanoidData[k].body]
        IN /\ humanoidData[k].isClimbing
           /\ UnderLadderTop(b)
           /\ HeadBlocked(b)
           /\ b.vel[2] = 20

NoHumanoidBit ==
    \A h \in DOMAIN bodies :
        IsHumanoid(bodies[h]) => ~HasBit(bodies[h].mask, CATEGORY_HUMANOID)

\* one humanoid has the mask of the capture, another the mask of the climb
CapturedAndClimbingMasks ==
    \E h, c \in world :
        /\ IsHumanoid(bodies[h]) /\ bodies[h].inBubble
        /\ bodies[h].mask = CATEGORY_DEFAULT
        /\ IsHumanoid(bodies[c]) /\ ~bodies[c].inBubble
        /\ bodies[c].mask = CATEGORY_DEFAULT + CATEGORY_DYNAMIC

(***************************************************************************)
(* Pause                                                                   *)
(***************************************************************************)
\* C14: while the simulation is paused a firing of the AI timer changes no
\* body and no humanoid record, and a firing of the spawn timer adds nothing
\* to the world, the entity list and the humanoid records; a firing is one
\* tick on the current state: it moves a leg phase by one step at most and
\* adds one body at most, also right after a resume
PausedTimersInert ==
    [][(AiTick \/ \E roll \in SpawnRolls : \E spawn \in SpawnsOf(roll) :
                     SpawnTick(roll, spawn)) =>
          /\ ~isSpawning =>
                UNCHANGED <<bodies, world, entities, humanoidData>>
          /\ Cardinality(world') <= Cardinality(world) + 1
          /\ Len(humanoidData') <= Len(humanoidData) + 1
          /\ \A k \in 1..Len(humanoidData) :
                humanoidData'[k].legPhase <= humanoidData[k].legPhase + 1]_vars

\* the simulation is paused while a humanoid that is in no bubble awaits its
\* tick and the spawner has room for a body
PausedWithWorkPending ==
    /\ ~isSpawning
    /\ ~runnerOn
    /\ RoomFor("humanoid", 1, MaxHumanoids)
    /\ \E k \in 1..Len(humanoidData) :
          /\ humanoidData[k].legPhase < MaxLegPhase
          /\ ~bodies[humanoidData[k].body].inBubble

(***************************************************************************)
(* Humanoid records and the cleanup                                        *)
(***************************************************************************)
\* the records of the body b
RecordsOf(b) == {k \in 1..Len(humanoidData) : humanoidData[k].body = b}

\* C15: in every reachable state the body of every humanoid record is tagged
\* humanoid and is in the entity list and in the world, and every humanoid of
\* the entity list has exactly one record
RecordsMatchHumanoids ==
    /\ \A k \in 1..Len(humanoidData) :
          /\ IsHumanoid(bodies[humanoidData[k].body])
          /\ humanoidData[k].body \in SeqToSet(entities)
          /\ humanoidData[k].body \in world
    /\ \A e \in SeqToSet(entities) :
          IsHumanoid(bodies[e]) => Cardinality(RecordsOf(e)) = 1

\* of two humanoids, one made by the timer and one by the button, the cleanup
\* has taken one that the engine had carried out of bounds; the other one is
\* left with its record
OneHumanoidCleanedUp ==
    /\ Cardinality(MadeOf(bodies, "humanoid")) = 2
    /\ Len(humanoidData) = 1
    /\ IsHumanoid(bodies[humanoidData[1].body])
    /\ \E h \in MadeOf(bodies, "humanoid") \ world :
          /\ OutOfBounds(bodies[h].pos, CanvasWidth, CanvasHeight)
          /\ humanoidData[1].hangingSet # (h = Id("humanoid", 1))

SegmentsOnWallList ==
    [][\A p \in PointerPoints :
          (HandlePointerMove(p) /\ cursorMode = "draw" /\ lastPoint # NoPoint) =>
             LET made == DOMAIN bodies' \ DOMAIN bodies
             IN /\ made # {}
                /\ made \subseteq world'
                /\ made \subseteq SeqToSet(currentStroke')
                /\ made \subseteq SeqToSet(walls')]_vars

(***************************************************************************)
(* Roulette                                                                *)
(***************************************************************************)
\* C18: a collision that involves a spinning roulette leaves its spin timer
\* and its spinning flag as they are; a spin starts at 180, every engine step
\* takes one off the timer, and the spin ends in the step that brings the
\* timer to 0: 180 steps after the collision that started it
SpinRunsItsCourse ==
    [][\A r \in world \cap world' :
          IsRoulette(bodies[r]) =>
             /\ bodies[r].isSpinning => bodies[r].spinTimer \in 1..180
             /\ (bodies[r].isSpinning /\ \E o \in world :
                                            CollisionStart(r, o) \/ CollisionStart(o, r)) =>
                   /\ bodies'[r].isSpinning
                   /\ bodies'[r].spinTimer = bodies[r].spinTimer
             /\ (bodies[r].isSpinning /\ PhysicsStep) =>
                   /\ bodies'[r].spinTimer = bodies[r].spinTimer - 1
                   /\ bodies'[r].isSpinning = (bodies[r].spinTimer > 1)
             /\ (bodies[r].isSpinning /\ ~PhysicsStep) =>
                   /\ bodies'[r].isSpinning
                   /\ bodies'[r].spinTimer = bodies[r].spinTimer
             /\ (~bodies[r].isSpinning /\ bodies'[r].isSpinning) =>
                   bodies'[r].spinTimer = 180]_vars

\* a spin has run out and won: the roulette is idle, its timer is 0 and the
\* ball of the burst is above it, in the world and in the entity list
SpinWonBurst ==
    \E r \in world : \E b \in world :
        /\ IsRoulette(bodies[r])
        /\ ~bodies[r].isSpinning
        /\ bodies[r].spinTimer = 0
        /\ bodies[b].kind = "ball"
        /\ bodies[b].pos = Pt(bodies[r].pos[1], -BurstAbove)
        /\ b \in SeqToSet(entities)

(***************************************************************************)
(* Aging of drawn lines                                                    *)
(***************************************************************************)
\* C19: in every reachable state, the beforeUpdate pass taken there leaves no
\* drawn line of the world that is older than 60 s in the world or on the wall
\* list, and leaves every line that is 60 s old or younger where it is
LinesAgeOut ==
    LET after == BeforeUpdate(bodies, world, walls, entities, now, {})
    IN \A l \in world :
          IsLine(bodies[l]) =>
             IF now - bodies[l].createdAt > 60000
             THEN l \notin after.world /\ l \notin SeqToSet(after.walls)
             ELSE /\ l \in after.world
                  /\ l \in SeqToSet(walls) => l \in SeqToSet(after.walls)

\* a line older than 60 s is out of the world and of the wall list while a
\* line that is exactly 60 s old is still in both
OldLineGoneLimitLineKept ==
    \E gone, kept \in MadeOf(bodies, "line") :
        /\ now - bodies[gone].createdAt > 60000
        /\ gone \notin world
        /\ gone \notin SeqToSet(walls)
        /\ now - bodies[kept].createdAt = 60000
        /\ kept \in world
        /\ kept \in SeqToSet(walls)

(***************************************************************************)
(* Grab mode                                                               *)
(***************************************************************************)
\* C20: while the mode is grab, pointer-down, pointer-move and pointer-up
\* leave the wall list, the stroke accumulator, the drawing flag and the last
\* point as they are and take nothing out of the world or of the lists; and
\* the mouse constraint is in the world exactly when the mode is grab
GrabModeInert ==
    /\ [][(/\ cursorMode = "grab"
           /\ \/ \E p \in PointerPoints : HandlePointerDown(p) \/ HandlePointerMove(p)
              \/ HandlePointerUp) =>
             /\ UNCHANGED <<walls, currentStroke, isDrawing, lastPoint, humanoidData>>
             /\ world \subseteq world'
             /\ SeqToSet(entities) \subseteq SeqToSet(entities')]_vars
    /\ [](constraintOn <=> cursorMode = "grab")

(***************************************************************************)
(* The AI tick, step by step                                               *)
(***************************************************************************)
\* C21: an AI tick leaves every humanoid marked inBubble exactly as it was:
\* its record (direction, legPhase, stuckCounter, hangingCounter, isClimbing)
\* and its body (velocity, angle, collision mask, applied force)
ContainedUntouchedByTick ==
    [][AiTick =>
          \A k \in 1..Len(humanoidData) :
             bodies[humanoidData[k].body].inBubble =>
                /\ humanoidData'[k] = humanoidData[k]
                /\ bodies'[humanoidData[k].body] = bodies[humanoidData[k].body]]_vars

\* a tick has moved the legs of a later humanoid and passed over an earlier
\* one that sits in a bubble
ContainedPassedOver ==
    \E k, j \in 1..Len(humanoidData) :
        /\ k < j
        /\ bodies[humanoidData[k].body].inBubble
        /\ humanoidData[k].legPhase = 0
        /\ bodies[humanoidData[k].body].vel = Pt(0, 0)
        /\ ~bodies[humanoidData[j].body].inBubble
        /\ humanoidData[j].legPhase > 0

\* C22: an AI tick leaves every humanoid it processes (not in a bubble) with
\* a mask that lacks CATEGORY_PLATEFORM exactly when the tick found it on a
\* ladder under the top margin (isClimbing set, isOnLadderTop not); off the
\* ladder and on the ladder's top the tick leaves the default mask
PlatformBitTracksClimb ==
    [][AiTickWalk =>
          \A k \in 1..Len(humanoidData) :
             LET b == bodies[humanoidData[k].body]
                 after == bodies'[humanoidData[k].body]
             IN ~b.inBubble =>
                   /\ ~HasBit(after.mask, CATEGORY_PLATEFORM) <=> UnderLadderTop(b)
                   /\ ~HasBit(after.mask, CATEGORY_PLATEFORM) <=>
                         (humanoidData'[k].isClimbing /\ ~after.isOnLadderTop)
                   /\ HasBit(after.mask, CATEGORY_PLATEFORM) =>
                         after.mask = CATEGORY_DEFAULT + CATEGORY_DYNAMIC + CATEGORY_PLATEFORM]_vars

\* two humanoids that have climbed (their vertical velocity is the climb's,
\* halved on the top) have the platform bit again: one on the ladder's top,
\* one off the ladder
PlatformRestoredOnTopAndOff ==
    \E k, j \in 1..Len(humanoidData) :
        LET t == bodies[humanoidData[k].body]
            o == bodies[humanoidData[j].body]
        IN /\ t.pos = SkyPos /\ t.isOnLadderTop /\ t.vel[2] = -7
           /\ HasBit(t.mask, CATEGORY_PLATEFORM)
           /\ ~humanoidData[k].isClimbing
           /\ o.pos = OutPos /\ o.vel[2] = -15
           /\ humanoidData[j].legPhase = 2
           /\ HasBit(o.mask, CATEGORY_PLATEFORM)
           /\ ~humanoidData[j].isClimbing

\* C23: an AI tick that finds a humanoid climbing (on a ladder under the top
\* margin, in no bubble) ends for it after the climb: direction, stuckCounter
\* and hangingCounter stay, the horizontal velocity is the pull to the
\* ladder's axis and not the walk's, legPhase moves by the climb's one step
\* and no force is applied
ClimbEndsTick ==
    [][AiTickWalk =>
          \A k \in 1..Len(humanoidData) :
             LET b == bodies[humanoidData[k].body]
                 after == bodies'[humanoidData[k].body]
             IN (~b.inBubble /\ UnderLadderTop(b)) =>
                   /\ humanoidData'[k].direction = humanoidData[k].direction
                   /\ humanoidData'[k].stuckCounter = humanoidData[k].stuckCounter
                   /\ humanoidData'[k].hangingCounter = humanoidData[k].hangingCounter
                   /\ humanoidData'[k].hangingSet = humanoidData[k].hangingSet
                   /\ humanoidData'[k].legPhase = humanoidData[k].legPhase + 1
                   /\ \E l \in SeqToSet(entities) :
                         /\ Label(bodies[l]) = "Ladder"
                         /\ after.vel[1] = (bodies[l].pos[1] - b.pos[1]) * 2
                   /\ after.vel[2] \in {-15, 20}
                   /\ after.force = b.force]_vars

\* a humanoid walking left has taken one tick on the ladder: it climbs, its
\* counters are untouched and no force waits for the engine
ClimbedWithoutWalking ==
    \E k \in 1..Len(humanoidData) :
        LET b == bodies[humanoidData[k].body]
        IN /\ b.pos = ClimbPos
           /\ humanoidData[k].isClimbing
           /\ humanoidData[k].legPhase = 1
           /\ humanoidData[k].direction = -1
           /\ humanoidData[k].stuckCounter = 0
           /\ humanoidData[k].hangingCounter = 0
           /\ b.vel[1] # -WalkSpeed
           /\ b.vel[2] = -15
           /\ b.force = Pt(0, 0)

\* C24: an AI tick that finds a humanoid (in no bubble, not climbing) with
\* hangingCounter > 0 takes exactly 1 from the counter, leaves the body at
\* rest and ends for it there: direction, legPhase and stuckCounter stay, and
\* the only force applied is the one that holds it against gravity
HangingTickHolds ==
    [][AiTickStepped =>
          \A k \in 1..Len(humanoidData) :
             LET b == bodies[humanoidData[k].body]
                 after == bodies'[humanoidData[k].body]
             IN (/\ ~b.inBubble
                 /\ ~UnderLadderTop(b)
                 /\ humanoidData[k].hangingCounter > 0) =>
                   /\ humanoidData'[k].hangingCounter = humanoidData[k].hangingCounter - 1
                   /\ after.vel = Pt(0, 0)
                   /\ humanoidData'[k].direction = humanoidData[k].direction
                   /\ humanoidData'[k].legPhase = humanoidData[k].legPhase
                   /\ humanoidData'[k].stuckCounter = humanoidData[k].stuckCounter
                   /\ after.force = Pt(b.force[1], b.force[2] - HoldFy)]_vars

\* a humanoid that began to hang has been held for one more tick at least
HeldForSecondTick ==
    \E k \in 1..Len(humanoidData) :
        /\ humanoidData[k].hangingCounter = HangMin - 2
        /\ humanoidData[k].legPhase = 0
        /\ bodies[humanoidData[k].body].vel = Pt(0, 0)
        /\ bodies[humanoidData[k].body].force = Pt(0, -HoldFy)

\* the probe of the hanging logic, before the humanoid b in the direction of
\* the record d, finds a wall-list body
GrabProbeHits(b, d) ==
    WallAt(bodies, walls, Pt(b.pos[1] + d.direction * HangProbeDx, b.pos[2] - HangProbeDy))

\* C25: hangingCounter goes from 0 to a positive value only in an AI tick that
\* finds the humanoid in no bubble, not climbing, with |vertical velocity|
\* above 1.0 and with a wall-list body at the probe before it; a humanoid at
\* rest vertically, or with nothing at the probe, does not begin to hang
HangStartsInAirAtWall ==
    [][AiTickStepped =>
          \A k \in 1..Len(humanoidData) :
             LET b == bodies[humanoidData[k].body]
             IN (/\ humanoidData[k].hangingCounter = 0
                 /\ humanoidData'[k].hangingCounter > 0) =>
                   /\ ~b.inBubble
                   /\ ~UnderLadderTop(b)
                   /\ Abs(b.vel[2]) > 10
                   /\ GrabProbeHits(b, humanoidData[k])]_vars

\* one humanoid fell beside the ground's edge and hangs; another fell in the
\* open, took its tick and walks on, falling
HangsAtWallFallsInOpen ==
    \E k, j \in 1..Len(humanoidData) :
        LET h == bodies[humanoidData[k].body]
            o == bodies[humanoidData[j].body]
        IN /\ humanoidData[k].hangingCounter > 0
           /\ GrabProbeHits(h, humanoidData[k])
           /\ h.vel = Pt(0, 0)
           /\ humanoidData[j].hangingCounter = 0
           /\ humanoidData[j].legPhase = 1
           /\ o.pos = OutPos
           /\ o.vel = Pt(humanoidData[j].direction * WalkSpeed, 20)
           /\ ~GrabProbeHits(o, humanoidData[j])

\* the humanoid b overlaps a ladder of the entity list above its top margin
OnLadderTop(b) ==
    \E l \in SeqToSet(entities) :
        /\ Label(bodies[l]) = "Ladder"
        /\ OverlapsLadder(b, bodies[l])
        /\ b.pos[2] < bodies[l].pos[2] - LadderHalfH + LadderTopMargin

\* C26: an AI tick that takes a humanoid to the walk logic (in no bubble, not
\* climbing, not hanging and not beginning to hang) leaves it with the
\* horizontal velocity direction * 2.0 and with the vertical velocity it
\* came to the walk logic with (the tick's own damping on a ladder's top
\* comes before), and moves legPhase by exactly one step
WalkSetsHorizontalOnly ==
    [][AiTickWalk =>
          \A k \in 1..Len(humanoidData) :
             LET b == bodies[humanoidData[k].body]
                 after == bodies'[humanoidData[k].body]
             IN (/\ ~b.inBubble
                 /\ ~UnderLadderTop(b)
                 /\ humanoidData[k].hangingCounter = 0
                 /\ humanoidData'[k].hangingCounter = 0) =>
                   /\ after.vel[1] = humanoidData[k].direction * 20
                   /\ after.vel[2] = IF OnLadderTop(b) THEN Half(b.vel[2]) ELSE b.vel[2]
                   /\ humanoidData'[k].legPhase = humanoidData[k].legPhase + 1]_vars

\* a humanoid that left the ladder rising at the climb's 1.5 has walked one
\* tick in the open and still rises at 1.5
WalkedStillRising ==
    \E k \in 1..Len(humanoidData) :
        LET b == bodies[humanoidData[k].body]
        IN /\ b.pos = OutPos
           /\ ~humanoidData[k].isClimbing
           /\ humanoidData[k].legPhase = MaxWalkTicks
           /\ b.vel = Pt(humanoidData[k].direction * WalkSpeed, -ClimbUpVel)

\* the AI tick has applied the obstacle jump's force to the k-th humanoid
ObstacleJumped(k) ==
    LET b == bodies[humanoidData[k].body]
        after == bodies'[humanoidData[k].body]
    IN after.force = Pt(b.force[1] + humanoidData[k].direction * ObstacleJumpFx,
                        b.force[2] - ObstacleJumpFy)

\* C27: across an AI tick legPhase does not decrease, except that the tick in
\* which the humanoid jumps over an obstacle leaves it at 0
LegPhaseResetOnJump ==
    [][AiTickWalk =>
          \A k \in 1..Len(humanoidData) :
             /\ \/ humanoidData'[k].legPhase >= humanoidData[k].legPhase
                \/ humanoidData'[k].legPhase = 0
             /\ ObstacleJumped(k) => humanoidData'[k].legPhase = 0]_vars

\* the AI tick has applied the idle hop's force to the k-th humanoid
IdleHopped(k) ==
    LET b == bodies[humanoidData[k].body]
        after == bodies'[humanoidData[k].body]
    IN after.force = Pt(b.force[1], b.force[2] - HopFy)

\* C28: in an AI tick a humanoid gets the obstacle jump's force only if the
\* probe 50 before it finds a wall-list body and its vertical velocity is
\* under 0.1, the idle hop's force only if its vertical velocity is under 0.1
\* and the obstacle jump was not applied, never both (the tick adds one of
\* the two forces or none), and neither when its vertical velocity is 0.1 or
\* more
JumpsOnlyGrounded ==
    [][AiTickWalk =>
          \A k \in 1..Len(humanoidData) :
             LET b == bodies[humanoidData[k].body]
                 after == bodies'[humanoidData[k].body]
                 grounded == Abs(after.vel[2]) < 1
                 blocked == WallAt(bodies, walls,
                                   Pt(b.pos[1] + humanoidData[k].direction * FrontProbeDx,
                                      b.pos[2]))
             IN /\ ObstacleJumped(k) => (blocked /\ grounded)
                /\ IdleHopped(k) => (grounded /\ ~ObstacleJumped(k) /\ ~blocked)
                /\ \/ ObstacleJumped(k)
                   \/ IdleHopped(k)
                   \/ after.force = b.force
                /\ (Abs(b.vel[2]) >= 1 /\ ~OnLadderTop(b)) => after.force = b.force
                /\ ~grounded => after.force = b.force]_vars

\* one humanoid has jumped before the ground's edge, another has hopped on
\* the ladder's top where nothing stands before it
JumpedAndHopped ==
    \E k, j \in 1..Len(humanoidData) :
        LET o == bodies[humanoidData[k].body]
            h == bodies[humanoidData[j].body]
        IN /\ o.force = Pt(humanoidData[k].direction * ObstacleJumpFx, -ObstacleJumpFy)
           /\ o.vel = Pt(humanoidData[k].direction * WalkSpeed, 0)
           /\ h.force = Pt(0, -HopFy)
           /\ h.pos = SkyPos
           /\ h.isOnLadderTop
           /\ h.vel = Pt(humanoidData[j].direction * WalkSpeed, 0)

(***************************************************************************)
(* The interaction pass                                                    *)
(***************************************************************************)
\* C29: whatever state the beforeUpdate handler runs in, it leaves every
\* humanoid that a bubble of the world contains with the bubble's position
\* and velocity, the humanoids it captures in this pass included
PassengersRideAfterPass ==
    LET after == BeforeUpdate(bodies, world, walls, entities, now, {}).bodies
    IN \A b \in world :
          (IsBubble(after[b]) /\ after[b].containedEntity # NoBody) =>
             /\ IsHumanoid(after[after[b].containedEntity])
             /\ after[after[b].containedEntity].pos = after[b].pos
             /\ after[after[b].containedEntity].vel = after[b].vel

\* the pass is about to capture a walking humanoid that stands in an empty
\* bubble at rest, and to bring a passenger to its bubble that has drifted
\* away
CaptureAndCarryPending ==
    \E h, p, b, c \in world :
        /\ IsHumanoid(bodies[h]) /\ ~bodies[h].inBubble
        /\ IsBubble(bodies[b]) /\ bodies[b].containedEntity = NoBody
        /\ DistLess(bodies[h].pos, bodies[b].pos, CaptureRadius)
        /\ bodies[h].vel # bodies[b].vel
        /\ IsBubble(bodies[c]) /\ bodies[c].containedEntity = p
        /\ bodies[p].inBubble
        /\ bodies[p].pos # bodies[c].pos

\* C30: the beforeUpdate handler leaves a floating bar of the world that the
\* pointer has not grabbed with its fixedPosition as it was, at that
\* position, with velocity and angular velocity 0, and gives a grabbed one
\* the live position as its fixedPosition; no step of the component changes a
\* fixedPosition otherwise: it changes only in an engine step taken while the
\* bar is grabbed, to the position the bar had when the step began
FixedPositionLocks ==
    /\ [](LET after == BeforeUpdate(bodies, world, walls, entities, now, {}).bodies
          IN \A i \in world :
                bodies[i].kind = "floatingbar" =>
                   IF bodies[i].grabbed
                   THEN after[i].fixedPosition = bodies[i].pos
                   ELSE /\ after[i].fixedPosition = bodies[i].fixedPosition
                        /\ after[i].pos = bodies[i].fixedPosition
                        /\ after[i].vel = Pt(0, 0)
                        /\ after[i].angularVelocity = 0)
    /\ [][\A i \in DOMAIN bodies :
             (bodies[i].kind = "floatingbar"
                /\ bodies'[i].fixedPosition # bodies[i].fixedPosition) =>
                   /\ bodies[i].grabbed
                   /\ bodies'[i].fixedPosition = bodies[i].pos
                   /\ PhysicsPush \/ PhysicsStep]_vars

\* a bar that was let go where the pointer had dragged it, away from where
\* it was made, has been pushed from there, falls and turns
PushedBarOnceDragged ==
    \E i \in world :
        /\ bodies[i].kind = "floatingbar"
        /\ ~bodies[i].grabbed
        /\ bodies[i].fixedPosition = SkyPos
        /\ bodies[i].pos = NearPos
        /\ bodies[i].vel # Pt(0, 0)
        /\ bodies[i].angularVelocity # 0

(***************************************************************************)
(* Roulette: the end of a spin                                             *)
(***************************************************************************)
\* the bodies an engine step has made
MadeByStep == DOMAIN bodies' \ DOMAIN bodies

\* C31: the engine step that brings a roulette's spin timer to 0 leaves it
\* idle; the bodies a step makes are balls, as many as a burst has for each
\* roulette that wins and none when every spin is lost, and each of them is
\* in the world and in the entity list; a step in which no spin ends makes no
\* body, so a spin is resolved once; and a collision with a moving body that
\* is no raindrop starts an idle roulette's spin anew, also after a spin
SpinResolvedOnce ==
    [][/\ PhysicsStep =>
             /\ \A r \in Resolving(bodies, world) :
                   /\ ~bodies'[r].isSpinning
                   /\ bodies'[r].spinTimer = 0
             /\ \E won \in 0..Cardinality(Resolving(bodies, world)) :
                   Cardinality(MadeByStep) = RouletteBurst * won
             /\ \A b \in MadeByStep :
                   /\ bodies'[b].kind = "ball"
                   /\ b \in world'
                   /\ b \in SeqToSet(entities')
             /\ world' \ world = MadeByStep
             /\ SeqToSet(entities') \ SeqToSet(entities) = MadeByStep
             /\ Len(entities') = Len(entities) + Cardinality(MadeByStep)
       /\ \A r, o \in world :
             (/\ CollisionStart(r, o) \/ CollisionStart(o, r)
              /\ IsRoulette(bodies[r])
              /\ ~bodies[r].isSpinning
              /\ ~IsStatic(bodies[o])
              /\ Label(bodies[o]) # "RainDrop") =>
                /\ bodies'[r].isSpinning
                /\ bodies'[r].spinTimer = 180]_vars

\* the ball of a burst that a spin has won is in the world and in the entity
\* list, and the roulette spins again, at the start of its second spin
SecondSpinAfterWin ==
    \E r, b \in world :
        /\ IsRoulette(bodies[r])
        /\ bodies[r].isSpinning
        /\ bodies[r].spinTimer = SpinSteps
        /\ bodies[b].kind = "ball"
        /\ bodies[b].pos = Pt(bodies[r].pos[1], -BurstAbove)
        /\ b \in SeqToSet(entities)

(***************************************************************************)
(* Strokes: the drag without a segment                                     *)
(***************************************************************************)
\* C32: a pointer-down that starts a drag in draw mode and is followed at once
\* by the pointer-up adds no compound body: the pointer-down changes neither
\* the world nor the wall list and leaves a state in which the pointer-up does
\* not fuse, and a pointer-up that does not fuse changes neither of them
TapAddsNothing ==
    [][/\ (/\ \E p \in PointerPoints : HandlePointerDown(p)
           /\ cursorMode = "draw"
           /\ ~isDrawing) =>
             /\ UNCHANGED <<world, walls>>
             /\ ~Fuses'
       /\ (HandlePointerUp /\ ~Fuses) => UNCHANGED <<bodies, world, walls>>]_vars

(***************************************************************************)
(* Strokes: the segments of one pointer-move                               *)
(***************************************************************************)
\* the square of the distance from p to q
Dist2(p, q) == (q[1] - p[1]) * (q[1] - p[1]) + (q[2] - p[2]) * (q[2] - p[2])

\* n is max(1, floor(d / 2)) for the distance d whose square is d2
IsHalfFloor(n, d2) ==
    \/ n = 1 /\ d2 < 16
    \/ n >= 2 /\ 4 * n * n <= d2 /\ d2 < 4 * (n + 1) * (n + 1)

\* C33: a pointer-move of a drag in draw mode, from the last point to a point
\* at distance d, makes max(1, floor(d / 2)) static segments and no other
\* body, adds them to the world and, in order, to the accumulator, the i-th
\* of them (i = 0 .. steps - 1) at the fraction i / steps of the way from
\* the last point to the new point, and makes the new point the last point
MoveLaysSegments ==
    [][\A p \in PointerPoints :
          (HandlePointerMove(p) /\ cursorMode = "draw" /\ lastPoint # NoPoint) =>
             LET made == DOMAIN bodies' \ DOMAIN bodies
                 steps == Cardinality(made)
                 from == Len(currentStroke)
             IN /\ IsHalfFloor(steps, Dist2(lastPoint, p))
                /\ world' = world \cup made
                /\ Len(currentStroke') = from + steps
                /\ SubSeq(currentStroke', 1, from) = currentStroke
                /\ SeqToSet(SubSeq(currentStroke', from + 1, from + steps)) = made
                /\ \A i \in 0..(steps - 1) :
                      LET part == bodies'[currentStroke'[from + 1 + i]]
                      IN /\ part.kind = "segment"
                         /\ IsStatic(part)
                         /\ steps * (part.pos[1] - lastPoint[1]) = (p[1] - lastPoint[1]) * i
                         /\ steps * (part.pos[2] - lastPoint[2]) = (p[2] - lastPoint[2]) * i
                /\ \A j \in DOMAIN bodies : bodies'[j] = bodies[j]
                /\ lastPoint' = p
                /\ UNCHANGED <<walls, entities, isDrawing>>]_vars

\* one pointer-move over a distance of 4 has laid two segments, at the last
\* point and half-way, and the drag goes on from the new point
TwoSegmentsLaid ==
    /\ isDrawing
    /\ cursorMode = "draw"
    /\ Len(currentStroke) = 2
    /\ \E lp, p \in PointerPoints :
          /\ Dist2(lp, p) = 16
          /\ lastPoint = p
          /\ bodies[currentStroke[1]].pos = lp
          /\ bodies[currentStroke[2]].pos = Pt((lp[1] + p[1]) \div 2, (lp[2] + p[2]) \div 2)

(***************************************************************************)
(* AI tick: the climbing flag                                              *)
(***************************************************************************)
\* a step that takes one humanoid from the ladder of the model to FloorPos,
\* where the bubbles are
PhysicsReach ==
    \E i \in world :
       /\ IsHumanoid(bodies[i])
       /\ bodies[i].pos \in {SkyPos, ClimbPos}
       /\ EngineUpdate(i, FloorPos, bodies[i].vel)

\* a ladder, bubbles and humanoids that climb, come off and are captured
NextCarried ==
    \/ SpawnLadderButton
    \/ SpawnTick("humanoid", RightSpawn)
    \/ PhysicsClimb
    \/ PhysicsReach
    \/ PhysicsStep
    \/ AiTick

SpecCarried == Init /\ [][NextCarried]_vars

\* the humanoid's box overlaps a ladder of the entity list under the ladder's
\* top margin
InClimbRegion(bd, es, h) ==
    \E k \in 1..Len(es) :
        /\ Label(bd[es[k]]) = "Ladder"
        /\ OverlapsLadder(h, bd[es[k]])
        /\ h.pos[2] >= bd[es[k]].pos[2] - LadderHalfH + LadderTopMargin

\* C34: whenever the AI timer runs, a tick on the state at hand leaves every
\* humanoid record with isClimbing true exactly if its humanoid overlaps a
\* ladder's climb region, also the record of a humanoid that a bubble has
\* captured
ClimbFlagTracksLadder ==
    (TimerRuns(isSpawning) /\ ~remountDue) =>
        \A draws \in [1..Len(humanoidData) -> Draws] :
            LET r == AiFrom(1, humanoidData, bodies, walls, entities, draws)
            IN \A k \in 1..Len(r.humanoidData) :
                  r.humanoidData[k].isClimbing <=>
                      InClimbRegion(r.bodies, entities, r.bodies[r.humanoidData[k].body])


\* a humanoid that a bubble has captured away from every ladder is still
\* flagged as climbing
StaleClimbFlag ==
    \E k \in 1..Len(humanoidData) :
        /\ humanoidData[k].isClimbing
        /\ bodies[humanoidData[k].body].inBubble
        /\ bodies[humanoidData[k].body].pos = FloorPos
        /\ ~InClimbRegion(bodies, entities, bodies[humanoidData[k].body])

(***************************************************************************)
(* Strokes: between the drags                                              *)
(***************************************************************************)
\* C35: whenever no drag is in progress the accumulator is empty and no
\* static stroke segment is in the world, whatever the order of pointer-down,
\* pointer-move, pointer-up and the changes of mode
NoStrokeLeftBehind ==
    ~isDrawing =>
        /\ currentStroke = <<>>
        /\ \A i \in world : bodies[i].kind # "segment"

(***************************************************************************)
(* Bubbles: the passenger of a bubble that is gone                         *)
(***************************************************************************)
\* C36: in every reachable state every humanoid of the world that is marked
\* inBubble is the containedEntity of a bubble of the world, also after a
\* bubble has been erased or cleaned up
ContainedHasBubble ==
    \A h \in world :
        (IsHumanoid(bodies[h]) /\ bodies[h].inBubble) =>
            \E b \in world :
                /\ bodies[b].kind = "bubble"
                /\ bodies[b].containedEntity = h

(***************************************************************************)
(* AI tick: the length of a hang                                           *)
(***************************************************************************)
\* C37: hangingCounter is always in 0 .. 59; a tick that starts a hang leaves
\* it at 58 at most, and every further tick of a humanoid that is in no
\* bubble and does not climb takes one off a positive counter, so that the
\* counter is back at 0 after 59 such ticks at most, the starting tick
\* included
HangRunsOut ==
    /\ [](\A k \in 1..Len(humanoidData) :
             humanoidData[k].hangingCounter \in 0..(HangMin + HangSpread - 1))
    /\ [][AiStep =>
            \A k \in 1..Len(humanoidData) :
               LET d == humanoidData[k]
                   e == humanoidData'[k]
               IN (~bodies[d.body].inBubble /\ ~e.isClimbing) =>
                     /\ d.hangingCounter > 0 =>
                           e.hangingCounter = d.hangingCounter - 1
                     /\ (d.hangingCounter = 0 /\ e.hangingCounter > 0) =>
                           e.hangingCounter <= HangMin + HangSpread - 2]_vars

\* a hang has run its course: the tick that brought the counter back to 0 has
\* held the humanoid once more
HangRanOut ==
    \E k \in 1..Len(humanoidData) :
        /\ humanoidData[k].hangingSet
        /\ humanoidData[k].hangingCounter = 0
        /\ bodies[humanoidData[k].body].vel = Pt(0, 0)
        /\ bodies[humanoidData[k].body].force = Pt(0, -HoldFy)

(***************************************************************************)
(* Strokes: pointer events outside a drag                                  *)
(***************************************************************************)
\* C38: while no drag is in progress a pointer-up (also the one that
\* pointer-leave or pointer-cancel sends after it) and a pointer-move change
\* nothing: no body is made, nothing is fused, and the world, the wall list,
\* the accumulator and the last point stay as they are
NoDragNoEffect ==
    ~isDrawing =>
        /\ ~ENABLED <<HandlePointerUp>>_vars
        /\ \A p \in PointerPoints : ~ENABLED <<HandlePointerMove(p)>>_vars

\* a drag has ended with a fuse and none is in progress: the pointer-leave
\* that follows the pointer-up finds the flag down
PointerIdleAfterDrag ==
    /\ ~isDrawing
    /\ lastPoint = NoPoint
    /\ \E k \in 1..Len(walls) :
          /\ bodies[walls[k]].kind = "line"
          /\ walls[k] \in world

(***************************************************************************)
(* Spawner and cleanup on canvases of every size                           *)
(***************************************************************************)
\* the widths and heights of the canvases of the model: none, less than the
\* humanoids' inset, and the usual
CanvasWidths == {0, HumanoidSpawnX \div 2, CanvasWidth}

CanvasHeights == {0, HumanoidSpawnUp \div 2, CanvasHeight}

\* the component mounts on a canvas of one of these sizes
InitSized == \E w \in CanvasWidths : \E h \in CanvasHeights : Mount(w, h)

\* the spawn timer and the cleanup timer, and humanoids that fall out
NextSized ==
    \/ \E roll \in SpawnRolls : \E spawn \in SpawnsOf(roll) : SpawnTick(roll, spawn)
    \/ CleanupTick
    \/ PhysicsDrop

SpecSized == InitSized /\ [][NextSized]_vars

\* C39: on a canvas of any width and height from 0 on, the body that a tick
\* of the spawn timer makes is not out of bounds by the cleanup predicate
\* where it is made, and a cleanup pass on the state the tick leaves keeps it
\* in the world and in the entity list, and keeps a humanoid's record
SpawnSurvivesCleanup ==
    [][\A roll \in SpawnRolls : \A spawn \in SpawnsOf(roll) :
          SpawnTick(roll, spawn) =>
             LET made == DOMAIN bodies' \ DOMAIN bodies
                 done == CleanupFrom(entities, world, humanoidData)'
             IN /\ Cardinality(made) = 1
                /\ width >= 0 /\ height >= 0
                /\ \A b \in made :
                      /\ bodies'[b].pos = Pt(spawn.x, spawn.y)
                      /\ ~OutOfBounds(bodies'[b].pos, width, height)
                      /\ b \in world'
                      /\ b \in done.world
                      /\ b \in SeqToSet(done.entities)
                      /\ roll = "humanoid" =>
                            \E k \in 1..Len(done.humanoidData) :
                                done.humanoidData[k].body = b]_vars

\* on a canvas of no width and no height the spawn timer has made a humanoid
\* on the right, left of and above the canvas, and a ball beyond its edge
SpawnedOffCanvas ==
    /\ width = 0
    /\ height = 0
    /\ \E h, b \in world :
          /\ IsHumanoid(bodies[h])
          /\ bodies[h].pos = Pt(-HumanoidSpawnX, -HumanoidSpawnUp)
          /\ bodies[b].kind = "ball"
          /\ bodies[b].pos = Pt(BallSpawnInset, 0)

====
